---- MODULE Spec2Model ----
(***************************************************************************)
(* A model of the embedded copy-on-write B+tree index (embedded/tbtree):   *)
(* the in-memory tree with its write buffer, the tree log and the history  *)
(* log on disk, flush, crash and recovery, snapshots and the tree lock.    *)
(*                                                                         *)
(* Byte strings are modelled by small naturals: a key is a natural, a      *)
(* value v is a byte string of length v.  Offsets in the two logs are byte *)
(* offsets; a persistent page id is the offset of the end of the page in   *)
(* the tree log.                                                           *)
(***************************************************************************)
EXTENDS Integers, Sequences, FiniteSets, TLC

\* ------------------------------------------------------------------ bounds
MaxTs == 2
MaxInserts == 3
InnerCap == 2
HistCap == 1
WBCap == 6
MaxKey == 3
MaxValueLen == 2

\* the inputs: keys, values (a value v is v bytes long) and timestamps
Keys == 1..MaxKey
Values == 1..MaxValueLen
Timestamps == 0..MaxTs

\* --------------------------------------------------------------- constants
PageSize == 4096
CommitMagicSize == 2
CommitEntrySize == 40 + CommitMagicSize
DefaultSyncThld == 1048576
HistoryEntryHeaderSize == 18
MemBase == 1073741824
PageNone == -1
OffsetNone == -1

\* An entry may take half a leaf (MaxEntrySize = 2 KiB, PageSize = 4 KiB).
EntrySize(e) == 1 + e.value
MaxEntrySize == 1 + MaxValueLen
LeafCap == 2 * MaxEntrySize

isMemPage(id) == id >= MemBase

\* no path of pages is longer than this (a longer walk is a walk in a cycle)
MaxDescent == WBCap + 2

\* ------------------------------------------------------------ small helpers
RECURSIVE SumSeq(_)
SumSeq(s) == IF s = <<>> THEN 0 ELSE Head(s) + SumSeq(Tail(s))

SeqMap(s, F(_)) == [i \in 1..Len(s) |-> F(s[i])]

\* --------------------------------------------------------------- page codec
Entry(k, v, ts) == [key |-> k, value |-> v, ts |-> ts, hoff |-> OffsetNone, hc |-> 0]
NoEntry == [key |-> 0, value |-> 0, ts |-> 0, hoff |-> OffsetNone, hc |-> 0]

NewLeafPage ==
  [kind |-> "leaf", root |-> FALSE, copied |-> FALSE, es |-> <<>>,
   keys |-> <<>>, ch |-> <<>>, next |-> PageNone]

NewInnerPage ==
  [kind |-> "inner", root |-> FALSE, copied |-> FALSE, es |-> <<>>,
   keys |-> <<>>, ch |-> <<PageNone>>, next |-> PageNone]

NewHistoryPage ==
  [kind |-> "history", root |-> FALSE, copied |-> FALSE, es |-> <<>>,
   keys |-> <<>>, ch |-> <<>>, next |-> PageNone]

NoPage ==
  [kind |-> "none", root |-> FALSE, copied |-> FALSE, es |-> <<>>,
   keys |-> <<>>, ch |-> <<>>, next |-> PageNone]

IsLeaf(pg) == pg.kind = "leaf"
NumEntries(pg) == IF pg.kind = "inner" THEN Len(pg.keys) ELSE Len(pg.es)

LeafBytes(es) == SumSeq(SeqMap(es, EntrySize))

LeafIndex(pg, key) ==
  IF \E i \in 1..Len(pg.es) : pg.es[i].key = key
  THEN CHOOSE i \in 1..Len(pg.es) : pg.es[i].key = key
  ELSE 0

SortedInsert(es, e) ==
  SelectSeq(es, LAMBDA x : x.key < e.key) \o <<e>> \o SelectSeq(es, LAMBDA x : x.key > e.key)

\* Page.InsertEntry: [err, pg, prev, replaced].  A replaced entry keeps its
\* history fields until UpdateHistory; a new key starts without history.
InsertEntry(pg, e) ==
  LET i == LeafIndex(pg, e.key)
      es2 == IF i > 0
             THEN [pg.es EXCEPT ![i] = [@ EXCEPT !.value = e.value, !.ts = e.ts]]
             ELSE SortedInsert(pg.es, [e EXCEPT !.hoff = OffsetNone, !.hc = 0])
  IN IF LeafBytes(es2) > LeafCap
     THEN [err |-> "PageFull", pg |-> pg, prev |-> NoEntry, replaced |-> FALSE]
     ELSE [err |-> "ok", pg |-> [pg EXCEPT !.es = es2],
           prev |-> IF i > 0 THEN pg.es[i] ELSE NoEntry, replaced |-> i > 0]

\* an UpdateHistory that sets the offset and leaves the count
UpdateHistoryKeepCount(pg, key, hoff) ==
  LET i == LeafIndex(pg, key)
  IN [pg EXCEPT !.es[i] = [@ EXCEPT !.hoff = hoff]]

UpdateHistory(pg, key, hoff) ==
  LET i == LeafIndex(pg, key)
  IN [pg EXCEPT !.es[i] = [@ EXCEPT !.hoff = hoff, !.hc = @ + 1]]

\* Page.Remove: [found, pg, prev]
Remove(pg, key) ==
  LET i == LeafIndex(pg, key)
  IN IF i = 0 THEN [found |-> FALSE, pg |-> pg, prev |-> NoEntry]
     ELSE [found |-> TRUE, prev |-> pg.es[i],
           pg |-> [pg EXCEPT !.es = SelectSeq(pg.es, LAMBDA x : x.key # key)]]

\* Page.splitLeafPage: the upper half moves to the new page, e goes where its
\* key belongs: [left, right]
LeafSplit(pg, splitPage, e) ==
  LET all == SortedInsert(pg.es, e)
      keep == (Len(all) + 1) \div 2
  IN [left |-> [pg EXCEPT !.es = SubSeq(all, 1, keep), !.root = FALSE],
      right |-> [splitPage EXCEPT !.es = SubSeq(all, keep + 1, Len(all))]]

firstKey(pg) == pg.es[1].key

\* Page.Find on an inner page: slot i (0-based) holds the keys k with
\* s_i <= k < s_(i+1).  [idx, child]
Find(pg, key) ==
  LET idx == Cardinality({i \in 1..Len(pg.keys) : pg.keys[i] <= key})
  IN [idx |-> idx, child |-> pg.ch[idx + 1]]

ChildPageAt(pg, i) == pg.ch[i + 1]

SetPageID(pg, i, id) == [pg EXCEPT !.ch[i + 1] = id]

InsertKeyAt(keys, ch, sep, id) ==
  LET p == Cardinality({i \in 1..Len(keys) : keys[i] < sep})
  IN [keys |-> SubSeq(keys, 1, p) \o <<sep>> \o SubSeq(keys, p + 1, Len(keys)),
      ch |-> SubSeq(ch, 1, p + 1) \o <<id>> \o SubSeq(ch, p + 2, Len(ch))]

\* Page.InsertKey: the separator with the child to its right. [err, pg]
InsertKey(pg, sep, id) ==
  IF Len(pg.keys) >= InnerCap THEN [err |-> "PageFull", pg |-> pg]
  ELSE LET r == InsertKeyAt(pg.keys, pg.ch, sep, id)
       IN [err |-> "ok", pg |-> [pg EXCEPT !.keys = r.keys, !.ch = r.ch]]

\* Page.splitInnerPage: the separator and its right child are added, the child
\* to its left gets its new id, the middle separator is lifted out and the
\* right half moves to the new page. [left, right, lifted]
InnerSplit(pg, splitPage, sep, splitPageID, newPageID) ==
  LET r == InsertKeyAt(pg.keys, pg.ch, sep, splitPageID)
      p == Cardinality({i \in 1..Len(pg.keys) : pg.keys[i] < sep})
      ch2 == [r.ch EXCEPT ![p + 1] = newPageID]
      n == Len(r.keys)
      m == n \div 2
  IN [left |-> [pg EXCEPT !.keys = SubSeq(r.keys, 1, m), !.ch = SubSeq(ch2, 1, m + 1),
                          !.root = FALSE],
      right |-> [splitPage EXCEPT !.keys = SubSeq(r.keys, m + 2, n),
                                  !.ch = SubSeq(ch2, m + 2, n + 1)],
      lifted |-> r.keys[m + 1]]

\* History entries and pages
\* mutant of HistoryEntry: the record is stamped one past the archived entry
HistoryEntryLaterTs(prev, ts, v) == [prev |-> prev, ts |-> ts + 1, value |-> v]

HistoryEntry(prev, ts, v) == [prev |-> prev, ts |-> ts, value |-> v]
HistoryEntrySize(he) == HistoryEntryHeaderSize + he.value
HistoryBytes(es) == SumSeq(SeqMap(es, HistoryEntrySize))

\* HistoryPage.Append: [err, pg, n]
HistoryAppend(pg, he) ==
  IF Len(pg.es) >= HistCap THEN [err |-> "PageFull", pg |-> pg, n |-> 0]
  ELSE [err |-> "ok", pg |-> [pg EXCEPT !.es = Append(@, he)], n |-> HistoryEntrySize(he)]

\* ------------------------------------------------------------ append logs
\* The tree log holds pages, commit entries and, after a crash, a torn tail;
\* the history log holds history entries.  A record's n is its length in bytes.
LogBytes(log) == SumSeq(SeqMap(log, LAMBDA r : r.n))
EndOff(log, i) == LogBytes(SubSeq(log, 1, i))

CommitEntry(ts, hoff, total, stale, count) ==
  [Ts |-> ts, HLogLastEntryOff |-> hoff, TotalPages |-> total, StalePages |-> stale,
   IndexedEntryCount |-> count]
NoCommit == CommitEntry(0, 0, 0, 0, 0)
NoWrites == [k \in Keys |-> <<>>]

PageRec(pg) == [type |-> "page", n |-> PageSize, pg |-> pg, ce |-> NoCommit, gh |-> NoWrites]
CommitRec(ce, gh) == [type |-> "commit", n |-> CommitEntrySize, pg |-> NoPage, ce |-> ce, gh |-> gh]
TornRec(n) == [type |-> "torn", n |-> n, pg |-> NoPage, ce |-> NoCommit, gh |-> NoWrites]

\* Appendable.SetOffset: the log keeps the records that end at or before off
SetOffsetTree(log, off) ==
  SubSeq(log, 1, CHOOSE i \in 0..Len(log) :
                   /\ EndOff(log, i) <= off
                   /\ \A j \in 0..Len(log) : EndOff(log, j) <= off => j <= i)

SetOffsetHistory(hlog, off) ==
  SubSeq(hlog, 1, CHOOSE i \in 0..Len(hlog) :
                    /\ HistoryBytes(SubSeq(hlog, 1, i)) <= off
                    /\ \A j \in 0..Len(hlog) : HistoryBytes(SubSeq(hlog, 1, j)) <= off => j <= i)

\* the history entry that starts at byte offset off: its index, or 0
HistoryIndexAt(hlog, off) ==
  IF \E i \in 1..Len(hlog) : HistoryBytes(SubSeq(hlog, 1, i - 1)) = off
  THEN CHOOSE i \in 1..Len(hlog) : HistoryBytes(SubSeq(hlog, 1, i - 1)) = off
  ELSE 0

\* ------------------------------------------------------------- write buffer
MemID(i) == MemBase + i
MemIndex(id) == id - MemBase
InWB(t, id) == isMemPage(id) /\ MemIndex(id) \in 1..Len(t.wb)
WbGet(t, id) == t.wb[MemIndex(id)]
WbSet(t, id, pg) == [t EXCEPT !.wb[MemIndex(id)] = pg]

\* WriteBuffer.Grow
Grow(t, n) == WBCap - Len(t.wb) >= n

\* WriteBuffer.AllocLeafPage / AllocInnerPage / AllocHistoryPage: [err, t, id]
Alloc(t, pg) ==
  IF Len(t.wb) >= WBCap THEN [err |-> "WriteBufferFull", t |-> t, id |-> PageNone]
  ELSE [err |-> "ok", t |-> [t EXCEPT !.wb = Append(@, pg)], id |-> MemID(Len(t.wb) + 1)]

\* TBTree.readPage: the page that ends at offset pgID of the tree log
readPage(t, pgID) ==
  LET log == t.treeApp
  IN IF \E i \in 1..Len(log) : log[i].type = "page" /\ EndOff(log, i) = pgID
     THEN [err |-> "ok",
           pg |-> log[CHOOSE i \in 1..Len(log) : log[i].type = "page" /\ EndOff(log, i) = pgID].pg]
     ELSE [err |-> "InvalidPageID", pg |-> NoPage]

\* TBTree.getPage: a mem page from the write buffer, any other from the log
getPage(t, pgID) ==
  IF isMemPage(pgID)
  THEN IF InWB(t, pgID) /\ WbGet(t, pgID).kind \in {"leaf", "inner"}
       THEN [err |-> "ok", pg |-> WbGet(t, pgID)]
       ELSE [err |-> "InvalidPageID", pg |-> NoPage]
  ELSE readPage(t, pgID)

\* WriteBuffer.GetOrDup with TBTree.dupPage as the loader: [err, t, pg, id]
GetOrDup(t, id) ==
  IF isMemPage(id)
  THEN LET Got(g) == [err |-> g.err, t |-> t, pg |-> g.pg, id |-> id]
       IN Got(getPage(t, id))
  ELSE LET Dup(d) ==
             LET Put(a) ==
                   [err |-> a.err, t |-> a.t, pg |-> [d.pg EXCEPT !.copied = TRUE], id |-> a.id]
             IN IF d.err # "ok" THEN [err |-> d.err, t |-> t, pg |-> NoPage, id |-> PageNone]
                ELSE Put(Alloc(t, [d.pg EXCEPT !.copied = TRUE]))
       IN Dup(readPage(t, id))

\* ------------------------------------------------------------------ insert
\* insertResult, with the error and the tree as the call left it
Res(t, split, newPageID, splitPageID, sep) ==
  [err |-> "ok", t |-> t, split |-> split, newPageID |-> newPageID,
   splitPageID |-> splitPageID, sepKey |-> sep]
Fail(t, err) ==
  [err |-> err, t |-> t, split |-> FALSE, newPageID |-> PageNone,
   splitPageID |-> PageNone, sepKey |-> 0]

\* TBTree.getCurrHistoryPage: [err, t, id]
getCurrHistoryPage(t) ==
  IF t.headHistoryPageID = PageNone
  THEN LET New(a) ==
             IF a.err # "ok" THEN a
             ELSE [a EXCEPT !.t.headHistoryPageID = a.id, !.t.tailHistoryPageID = a.id]
       IN New(Alloc(t, NewHistoryPage))
  ELSE IF InWB(t, t.tailHistoryPageID) /\ WbGet(t, t.tailHistoryPageID).kind = "history"
       THEN [err |-> "ok", t |-> t, id |-> t.tailHistoryPageID]
       ELSE [err |-> "InvalidPageID", t |-> t, id |-> PageNone]

\* TBTree.archiveEntry: [err, t, hoff]
archiveEntry(t, e) ==
  LET he == HistoryEntry(e.hoff, e.ts, e.value)
      Done(t1, n) ==
        [err |-> "ok", hoff |-> t.bufferedHistoryData,
         t |-> [t1 EXCEPT !.bufferedHistoryData = @ + n]]
      \* the current page is full: a new page is allocated and linked after it
      Full(c, pg, a, ap2) ==
        IF a.err # "ok" THEN [err |-> a.err, t |-> c.t, hoff |-> OffsetNone]
        ELSE IF ap2.err # "ok"
        THEN [err |-> ap2.err, t |-> WbSet(a.t, c.id, [pg EXCEPT !.next = a.id]),
              hoff |-> OffsetNone]
        ELSE Done([WbSet(WbSet(a.t, c.id, [pg EXCEPT !.next = a.id]), a.id, ap2.pg)
                     EXCEPT !.tailHistoryPageID = a.id], ap2.n)
      Put(c, pg, ap) ==
        IF ap.err = "PageFull"
        THEN Full(c, pg, Alloc(c.t, NewHistoryPage), HistoryAppend(NewHistoryPage, he))
        ELSE Done(WbSet(c.t, c.id, ap.pg), ap.n)
      Curr(c) ==
        IF c.err # "ok" THEN [err |-> c.err, t |-> c.t, hoff |-> OffsetNone]
        ELSE Put(c, WbGet(c.t, c.id), HistoryAppend(WbGet(c.t, c.id), he))
  IN Curr(getCurrHistoryPage(t))

\* TBTree.insertEmpty
insertEmpty(t, e) ==
  LET New(a, r) ==
        IF a.err # "ok" THEN Fail(t, a.err)
        ELSE IF r.err # "ok" THEN Fail(a.t, r.err)
        ELSE Res([WbSet(a.t, a.id, [r.pg EXCEPT !.root = TRUE]) EXCEPT !.depth = @ + 1],
                 FALSE, a.id, PageNone, 0)
  IN New(Alloc(t, NewLeafPage), InsertEntry(NewLeafPage, e))

\* a splitLeafPage that removes the replaced entry without archiving it
splitLeafPageNoArchive(t, pg, pgID, e) ==
  LET Split(t2, a, rmPg, e2) ==
        LET sp == LeafSplit(rmPg, NewLeafPage, e2)
        IN Res(WbSet(WbSet(t2, pgID, sp.left), a.id, sp.right),
               TRUE, pgID, a.id, firstKey(sp.right))
      Removed(a, rm) == Split(WbSet(a.t, pgID, rm.pg), a, rm.pg, e)
      New(a) ==
        IF a.err # "ok" THEN Fail(t, a.err) ELSE Removed(a, Remove(pg, e.key))
  IN New(Alloc(t, NewLeafPage))

\* TBTree.splitLeafPage
splitLeafPage(t, pg, pgID, e) ==
  LET Split(t2, a, rmPg, e2) ==
        LET sp == LeafSplit(rmPg, NewLeafPage, e2)
        IN Res(WbSet(WbSet(t2, pgID, sp.left), a.id, sp.right),
               TRUE, pgID, a.id, firstKey(sp.right))
      Archived(a, rm, ar) ==
        IF ar.err # "ok" THEN Fail(ar.t, ar.err)
        ELSE Split(ar.t, a, rm.pg, [e EXCEPT !.hoff = ar.hoff, !.hc = rm.prev.hc + 1])
      Removed(a, rm) ==
        IF rm.found THEN Archived(a, rm, archiveEntry(WbSet(a.t, pgID, rm.pg), rm.prev))
        ELSE Split(WbSet(a.t, pgID, rm.pg), a, rm.pg, e)
      New(a) ==
        IF a.err # "ok" THEN Fail(t, a.err) ELSE Removed(a, Remove(pg, e.key))
  IN New(Alloc(t, NewLeafPage))

\* TBTree.insertLeaf
insertLeaf(t, pg, pgID, e, depth) ==
  LET Archived(r, ar) ==
        IF ar.err # "ok" THEN Fail(ar.t, ar.err)
        ELSE Res([WbSet(ar.t, pgID, UpdateHistory(r.pg, e.key, ar.hoff)) EXCEPT !.depth = depth],
                 FALSE, pgID, PageNone, 0)
      Inserted(r) ==
        IF r.err = "PageFull" THEN splitLeafPage(t, pg, pgID, e)
        ELSE IF r.err # "ok" THEN Fail(t, r.err)
        ELSE IF r.replaced THEN Archived(r, archiveEntry(WbSet(t, pgID, r.pg), r.prev))
        ELSE Res([WbSet(t, pgID, r.pg) EXCEPT !.depth = depth], FALSE, pgID, PageNone, 0)
  IN Inserted(InsertEntry(pg, e))

\* TBTree.insertInnerPage: [res, splitted]; res.err # "ok" on failure
insertInnerPage(t, pg, newPageID, res) ==
  LET Split(a, sp) ==
        IF a.err # "ok" THEN [res |-> Fail(t, a.err), splitted |-> TRUE]
        ELSE [res |-> Res(WbSet(WbSet(a.t, newPageID, sp.left), a.id, sp.right),
                          TRUE, newPageID, a.id, sp.lifted),
              splitted |-> TRUE]
      Keyed(ik) ==
        IF ik.err = "PageFull"
        THEN Split(Alloc(t, NewInnerPage),
                   InnerSplit(pg, NewInnerPage, res.sepKey, res.splitPageID, res.newPageID))
        ELSE [res |-> Res(WbSet(t, newPageID, ik.pg), FALSE, PageNone, PageNone, 0),
              splitted |-> FALSE]
  IN Keyed(InsertKey(pg, res.sepKey, res.splitPageID))

\* TBTree.insert
RECURSIVE insert(_, _, _, _)
insert(t, id, e, depth) ==
  IF id = PageNone THEN insertEmpty(t, e)
  ELSE IF depth > MaxDescent THEN Fail(t, "InvalidPageID")
  ELSE
    LET SetChild(t2, g, idx, newPageID) ==
          Res(WbSet(t2, g.id, SetPageID(WbGet(t2, g.id), idx, newPageID)),
              FALSE, g.id, PageNone, 0)
        Splitted(g, idx, res, ip) ==
          IF ip.splitted \/ ip.res.err # "ok" THEN ip.res
          ELSE SetChild(ip.res.t, g, idx, res.newPageID)
        Child(g, idx, res) ==
          IF res.err # "ok" THEN Fail(res.t, res.err)
          ELSE IF res.split
          THEN Splitted(g, idx, res, insertInnerPage(res.t, WbGet(res.t, g.id), g.id, res))
          ELSE SetChild(res.t, g, idx, res.newPageID)
        Found(g, f) == Child(g, f.idx, insert(g.t, f.child, e, depth + 1))
        Page(g) ==
          IF g.err # "ok" THEN Fail(g.t, g.err)
          ELSE IF IsLeaf(g.pg) THEN insertLeaf(g.t, g.pg, g.id, e, depth)
          ELSE Found(g, Find(g.pg, e.key))
    IN Page(GetOrDup(t, id))

\* TBTree.Insert between TryLock and Unlock: [err, t]
InsertLocked(t, e) ==
  LET Done(t2) == [err |-> "ok", t |-> [t2 EXCEPT !.rootTs = e.ts, !.mutated = TRUE]]
      NewRoot(res, t1, a, ik) ==
        IF a.err # "ok" THEN [err |-> a.err, t |-> t1]
        ELSE IF ik.err # "ok" THEN [err |-> ik.err, t |-> a.t]
        ELSE Done([WbSet(a.t, a.id, [SetPageID(ik.pg, 0, res.newPageID) EXCEPT !.root = TRUE])
                     EXCEPT !.rootID = a.id])
      Deeper(res, t1) ==
        NewRoot(res, t1, Alloc(t1, NewInnerPage),
                InsertKey(NewInnerPage, res.sepKey, res.splitPageID))
      Inserted(res) ==
        IF res.err # "ok" THEN [err |-> res.err, t |-> res.t]
        ELSE IF res.split THEN Deeper(res, [res.t EXCEPT !.depth = @ + 1])
        ELSE Done([res.t EXCEPT !.rootID = res.newPageID])
  IN IF ~Grow(t, t.depth + 2) THEN [err |-> "WriteBufferFull", t |-> t]
     ELSE Inserted(insert(t, t.rootID, e, 0))

\* the timestamp checks without e.Ts < t.Ts()
ValidInsertTsAnyOrder(ts, rootTs) == ts # 0

\* the timestamp checks without e.Ts == 0
ValidInsertTsZero(ts, rootTs) == ts >= rootTs

\* TBTree.Insert, the timestamp checks made before the lock is taken
ValidInsertTs(ts, rootTs) == ts # 0 /\ ts >= rootTs

\* a TryLock that succeeds whoever holds the lock
TryLockAlways(m) == TRUE

\* sync.RWMutex.TryLock on t.mtx: no writer and no shared holder
TryLock(m) == ~m.w /\ m.r = 0

\* an RLock that is released again before WriteSnapshot returns
RLockReleased(m) == m

\* t.mtx.RLock in WriteSnapshot, with no RUnlock on the path that returns the
\* snapshot, and the RUnlock of the snapshot's Close
RLock(m) == [m EXCEPT !.r = @ + 1]
RUnlock(m) == [m EXCEPT !.r = @ - 1]

\* TBTree.Insert, the whole call: [ret, t]
InsertCall(t, m, e) ==
  LET Locked(r) == [ret |-> r.err, t |-> r.t]
  IN IF ~ValidInsertTs(e.ts, t.rootTs) THEN [ret |-> "InvalidTimestamp", t |-> t]
     ELSE IF ~TryLock(m) THEN [ret |-> "TreeLocked", t |-> t]
     ELSE Locked(InsertLocked(t, e))

\* an Advance that marks the tree as mutated
AdvanceCallMutates(t, m, ts, entryCount) ==
  IF ts = t.rootTs THEN [ret |-> "ok", t |-> t]
  ELSE IF ts < t.rootTs THEN [ret |-> "InvalidTimestamp", t |-> t]
  ELSE IF ~TryLock(m) THEN [ret |-> "TreeLocked", t |-> t]
  ELSE [ret |-> "ok", t |-> [t EXCEPT !.rootTs = ts, !.indexedEntryCount = entryCount,
                                      !.mutated = TRUE]]

\* TBTree.Advance, the whole call: [ret, t]
AdvanceCall(t, m, ts, entryCount) ==
  IF ts = t.rootTs THEN [ret |-> "ok", t |-> t]
  ELSE IF ts < t.rootTs THEN [ret |-> "InvalidTimestamp", t |-> t]
  ELSE IF ~TryLock(m) THEN [ret |-> "TreeLocked", t |-> t]
  ELSE [ret |-> "ok", t |-> [t EXCEPT !.rootTs = ts, !.indexedEntryCount = entryCount]]

\* ------------------------------------------------------------------- reads
\* what Get returns of a leaf entry: [err, value, ts, hc]
GetRes(err, e) == [err |-> err, value |-> e.value, ts |-> e.ts, hc |-> e.hc]

\* TBTree.findPage: the descent through the page buffer, every page read from
\* the tree log. [err, pg]
RECURSIVE findPage(_, _, _, _)
findPage(t, key, id, fuel) ==
  LET Page(g) ==
        IF fuel = 0 \/ g.err # "ok" THEN [err |-> "InvalidPageID", pg |-> NoPage]
        ELSE IF IsLeaf(g.pg) THEN g
        ELSE findPage(t, key, Find(g.pg, key).child, fuel - 1)
  IN Page(readPage(t, id))

\* the descent of a snapshot: mem pages come from the write buffer. [err, pg]
RECURSIVE snapFindPage(_, _, _, _)
snapFindPage(t, key, id, fuel) ==
  LET Page(g) ==
        IF fuel = 0 \/ g.err # "ok" THEN [err |-> "InvalidPageID", pg |-> NoPage]
        ELSE IF IsLeaf(g.pg) THEN g
        ELSE snapFindPage(t, key, Find(g.pg, key).child, fuel - 1)
  IN Page(getPage(t, id))

\* Snapshot.Get at a root: the descent, then the leaf lookup.  SnapEntry is
\* the leaf entry [err, e], SnapGet what Get returns of it
SnapEntry(t, root, key) ==
  LET Hit(pg, i) ==
        IF i = 0 THEN [err |-> "KeyNotFound", e |-> NoEntry] ELSE [err |-> "ok", e |-> pg.es[i]]
      Leaf(f) ==
        IF f.err # "ok" THEN [err |-> f.err, e |-> NoEntry] ELSE Hit(f.pg, LeafIndex(f.pg, key))
  IN IF root = PageNone THEN [err |-> "KeyNotFound", e |-> NoEntry]
     ELSE Leaf(snapFindPage(t, key, root, MaxDescent))

SnapGet(t, root, key) ==
  LET Found(x) == GetRes(x.err, x.e) IN Found(SnapEntry(t, root, key))

\* a Get that reads through a read snapshot, at the last flushed root
GetAtLastSnapshot(t, key) == SnapGet(t, t.lastSnapshotID, key)

\* TBTree.Get: through a write snapshot at the in-memory root
Get(t, key) == SnapGet(t, t.rootID, key)

\* TBTree.getRevision: n - 1 reads of a prevOffset, then the record. A read at
\* an offset where no record of the history log starts fails. [err, value, ts]
RECURSIVE getRevision(_, _, _)
getRevision(hlog, hoff, n) ==
  IF HistoryIndexAt(hlog, hoff) = 0 THEN [err |-> "EOF", value |-> 0, ts |-> 0]
  ELSE IF n > 1 THEN getRevision(hlog, hlog[HistoryIndexAt(hlog, hoff)].prev, n - 1)
  ELSE [err |-> "ok", value |-> hlog[HistoryIndexAt(hlog, hoff)].value,
        ts |-> hlog[HistoryIndexAt(hlog, hoff)].ts]

\* TBTree.GetRevision: [err, value, ts]
GetRevision(t, key, version) ==
  LET Entry1(e) ==
        IF version = e.hc + 1 THEN [err |-> "ok", value |-> e.value, ts |-> e.ts]
        ELSE IF version > e.hc THEN [err |-> "KeyRevisionNotFound", value |-> 0, ts |-> 0]
        ELSE getRevision(t.historyApp, e.hoff, e.hc - version + 1)
      Leaf(f, i) ==
        IF f.err # "ok" THEN [err |-> f.err, value |-> 0, ts |-> 0]
        ELSE IF i = 0 THEN [err |-> "KeyNotFound", value |-> 0, ts |-> 0]
        ELSE Entry1(f.pg.es[i])
      Found(f) == Leaf(f, IF f.err = "ok" THEN LeafIndex(f.pg, key) ELSE 0)
  IN Found(findPage(t, key, t.lastSnapshotID, MaxDescent))

\* ------------------------------------------------------------------- flush
\* TBTree.flushHistory: [err, t, n, lastEntryOff]
RECURSIVE flushHistoryFrom(_, _, _, _, _)
flushHistoryFrom(t, currPage, n, lastEntryOff, fuel) ==
  IF currPage = PageNone
  THEN [err |-> "ok", t |-> [t EXCEPT !.headHistoryPageID = PageNone],
        n |-> n, lastEntryOff |-> lastEntryOff]
  ELSE IF fuel = 0 \/ ~InWB(t, currPage) \/ WbGet(t, currPage).kind # "history"
  THEN [err |-> "InvalidPageID", t |-> t, n |-> -1, lastEntryOff |-> 0]
  ELSE LET hp == WbGet(t, currPage)
           off == HistoryBytes(t.historyApp)
       IN flushHistoryFrom([t EXCEPT !.historyApp = @ \o hp.es], hp.next,
                           n + HistoryBytes(hp.es), off, fuel - 1)

flushHistory(t) ==
  IF t.headHistoryPageID = PageNone
  THEN [err |-> "ok", t |-> t, n |-> 0, lastEntryOff |-> 0]
  ELSE flushHistoryFrom(t, t.headHistoryPageID, 0, 0, WBCap)

\* an appendPage that returns the offset the page starts at
appendPageAtStart(t, pg) ==
  [t |-> [t EXCEPT !.treeApp = Append(@, PageRec(pg))],
   n |-> PageSize, id |-> LogBytes(t.treeApp)]

\* TBTree.appendPage: [t, n, id]
appendPage(t, pg) ==
  [t |-> [t EXCEPT !.treeApp = Append(@, PageRec(pg))],
   n |-> PageSize, id |-> LogBytes(t.treeApp) + PageSize]

FlushRes(err, t, pages, bytes, rootID, stale) ==
  [err |-> err, t |-> t, pagesFlushed |-> pages, bytesWritten |-> bytes,
   rootID |-> rootID, stalePages |-> stale]

\* the children a flush visits: slots 0 .. NumEntries - 1
FlushSlots(pg) == NumEntries(pg)

\* TBTree.flushTreeLog (fullDump is not set by flushTo)
RECURSIVE flushTreeLog(_, _, _)
RECURSIVE flushChildren(_, _, _, _, _)
flushChildren(t, pageID, i, acc, fuel) ==
  LET Child(res) ==
        IF res.err # "ok" THEN FlushRes(res.err, res.t, 0, 0, PageNone, 0)
        ELSE flushChildren(WbSet(res.t, pageID, SetPageID(WbGet(res.t, pageID), i, res.rootID)),
                           pageID, i + 1,
                           [acc EXCEPT !.stalePages = @ + res.stalePages,
                                       !.bytesWritten = @ + res.bytesWritten,
                                       !.pagesFlushed = @ + res.pagesFlushed], fuel)
      Slot(childPageID) ==
        IF ~isMemPage(childPageID) THEN flushChildren(t, pageID, i + 1, acc, fuel)
        ELSE Child(flushTreeLog(t, childPageID, fuel - 1))
  IN IF i >= FlushSlots(WbGet(t, pageID)) THEN [acc EXCEPT !.t = t]
     ELSE Slot(ChildPageAt(WbGet(t, pageID), i))

flushTreeLog(t, pageID, fuel) ==
  LET Appended(ap, pages, bytes, stale) ==
        FlushRes("ok", ap.t, pages + 1, bytes + ap.n, ap.id, stale)
      Children(cs, own) ==
        IF cs.err # "ok" THEN cs
        ELSE Appended(appendPage(cs.t, WbGet(cs.t, pageID)),
                      cs.pagesFlushed, cs.bytesWritten, cs.stalePages + own)
      Page(pg, own) ==
        IF IsLeaf(pg) THEN Appended(appendPage(t, pg), 0, 0, own)
        ELSE Children(flushChildren(t, pageID, 0, FlushRes("ok", t, 0, 0, PageNone, 0), fuel),
                      own)
  IN IF fuel = 0 THEN FlushRes("InvalidPageID", t, 0, 0, PageNone, 0)
     ELSE IF ~isMemPage(pageID) THEN FlushRes("NotInMemory", t, 0, 0, PageNone, 0)
     ELSE IF getPage(t, pageID).err # "ok" THEN FlushRes("InvalidPageID", t, 0, 0, PageNone, 0)
     ELSE Page(WbGet(t, pageID), IF WbGet(t, pageID).copied THEN 1 ELSE 0)

\* TBTree.flushTo with commit: [err, t, hLogBytesWritten, res]
flushTo(t) ==
  LET Commit(fh, res, t1) ==
        [err |-> "ok",
         t |-> [t1 EXCEPT !.treeApp =
                  Append(@, CommitRec(CommitEntry(t1.rootTs, fh.lastEntryOff, res.pagesFlushed,
                                                  t1.stalePages, t1.indexedEntryCount),
                                      NoWrites))],
         hLogBytesWritten |-> fh.n, res |-> res]
      Tree(fh, res) ==
        IF res.err # "ok" THEN [err |-> res.err, t |-> res.t, hLogBytesWritten |-> -1, res |-> res]
        ELSE Commit(fh, res, [res.t EXCEPT !.stalePages = @ + res.stalePages,
                                           !.numPages = @ + res.pagesFlushed])
      History(fh) ==
        IF fh.err # "ok"
        THEN [err |-> fh.err, t |-> fh.t, hLogBytesWritten |-> -1,
              res |-> FlushRes(fh.err, fh.t, 0, 0, PageNone, 0)]
        ELSE Tree(fh, flushTreeLog(fh.t, fh.t.rootID, MaxDescent))
  IN History(flushHistory(t))

\* the background sync tasks of a tree: launched and not yet running, running
NoSyncs == [launched |-> 0, running |-> 0]

\* TBTree.maybeSync: the bytes are added to unsyncedBytes and, at the
\* threshold, a task is launched; the task's own steps are SyncBegin and
\* SyncEnd. (unsyncedBytes is a uint32; the logs of the model stay far below
\* 2^32 bytes.)
maybeSync(t, n) ==
  LET u == t.unsyncedBytes + n
  IN IF u < t.syncThld THEN [t EXCEPT !.unsyncedBytes = u]
     ELSE [t EXCEPT !.unsyncedBytes = u, !.syncs.launched = @ + 1]

\* a flushToTreeLog that publishes the root it started from
flushToTreeLogKeepRoot(t) ==
  LET Flushed(f) ==
        IF f.err # "ok" THEN [err |-> f.err, t |-> f.t]
        ELSE [err |-> "ok",
              t |-> maybeSync([f.t EXCEPT !.lastSnapshotID = f.t.rootID,
                                          !.lastSnapshotTs = f.t.rootTs,
                                          !.headHistoryPageID = PageNone,
                                          !.tailHistoryPageID = PageNone,
                                          !.mutated = FALSE],
                              f.res.bytesWritten + f.hLogBytesWritten)]
  IN IF ~t.mutated THEN [err |-> "ok", t |-> t] ELSE Flushed(flushTo(t))

\* a flushToTreeLog that publishes the tree's timestamp before it looks at
\* mutated
flushToTreeLogPublishesTs(t) ==
  LET Flushed(f) ==
        IF f.err # "ok" THEN [err |-> f.err, t |-> f.t]
        ELSE [err |-> "ok",
              t |-> maybeSync([f.t EXCEPT !.rootID = f.res.rootID,
                                          !.lastSnapshotID = f.res.rootID,
                                          !.lastSnapshotTs = f.t.rootTs,
                                          !.headHistoryPageID = PageNone,
                                          !.tailHistoryPageID = PageNone,
                                          !.mutated = FALSE],
                              f.res.bytesWritten + f.hLogBytesWritten)]
  IN IF ~t.mutated THEN [err |-> "ok", t |-> [t EXCEPT !.lastSnapshotTs = t.rootTs]]
     ELSE Flushed(flushTo(t))

\* TBTree.flushToTreeLog: [err, t]
flushToTreeLog(t) ==
  LET Flushed(f) ==
        IF f.err # "ok" THEN [err |-> f.err, t |-> f.t]
        ELSE [err |-> "ok",
              t |-> maybeSync([f.t EXCEPT !.rootID = f.res.rootID,
                                          !.lastSnapshotID = f.res.rootID,
                                          !.lastSnapshotTs = f.t.rootTs,
                                          !.headHistoryPageID = PageNone,
                                          !.tailHistoryPageID = PageNone,
                                          !.mutated = FALSE],
                              f.res.bytesWritten + f.hLogBytesWritten)]
  IN IF ~t.mutated THEN [err |-> "ok", t |-> t] ELSE Flushed(flushTo(t))

\* ---------------------------------------------------------------- close
\* The calls Close makes on its two logs, in the order it makes them, and the
\* ones among them that the file system fails (an environment's choice).
CloseSteps == <<"flushToTreeLog", "historyApp.Sync", "treeApp.Sync",
                "historyApp.Close", "treeApp.Close">>
IOFaults == SUBSET {CloseSteps[i] : i \in 1..Len(CloseSteps)}

\* the steps of q that are in the set f, in the order of q
RECURSIVE Failing(_, _)
Failing(q, f) ==
  IF q = <<>> THEN <<>>
  ELSE (IF Head(q) \in f THEN <<Head(q)>> ELSE <<>>) \o Failing(Tail(q), f)

\* flushToTreeLog over a tree log whose Append fails: the history log has been
\* flushed, appendPage returns the error and nothing is published
flushToTreeLogAppendFails(t) ==
  IF ~t.mutated THEN [err |-> "ok", t |-> t]
  ELSE [err |-> "flushToTreeLog", t |-> flushHistory(t).t]

\* flushToTreeLog over a tree log whose Append or Flush fails in commit():
\* the history log and every page of the batch have been written, the
\* counters have been added to, and nothing is published
flushToTreeLogCommitFails(t) ==
  LET Uncommitted(f) ==
        IF f.err # "ok" THEN [err |-> f.err, t |-> f.t]
        ELSE [err |-> "commit",
              t |-> [f.t EXCEPT !.treeApp = SubSeq(@, 1, Len(@) - 1)]]
  IN IF ~t.mutated THEN [err |-> "ok", t |-> t] ELSE Uncommitted(flushTo(t))

\* TBTree.Close inside the lock: [ret, t, steps]; ret is the sequence of the
\* errors returned (<<>> is nil), steps the calls that were made
CloseCall(t, faults) ==
  LET Synced(f) ==
        [ret |-> Failing(Tail(CloseSteps), faults), t |-> f.t, steps |-> CloseSteps]
      Flushed(f) ==
        IF f.err # "ok" THEN [ret |-> <<f.err>>, t |-> f.t, steps |-> <<"flushToTreeLog">>]
        ELSE Synced(f)
  IN IF t.snapshotCount > 0 THEN [ret |-> <<"ActiveSnapshots">>, t |-> t, steps |-> <<>>]
     ELSE IF "flushToTreeLog" \in faults THEN Flushed(flushToTreeLogAppendFails(t))
     ELSE Flushed(flushToTreeLog(t))

\* TBTree.ensureLatestSnapshotContainsTs, inside the lock: [err, t, root, ts]
ensureLatestSnapshotContainsTs(t, ts) ==
  LET Flushed(f) ==
        IF f.err # "ok" THEN [err |-> f.err, t |-> f.t, root |-> PageNone, ts |-> 0]
        ELSE [err |-> "ok", t |-> f.t, root |-> f.t.lastSnapshotID, ts |-> f.t.lastSnapshotTs]
  IN IF t.rootTs < ts THEN [err |-> "StaleRootTimestamp", t |-> t, root |-> PageNone, ts |-> 0]
     ELSE IF t.lastSnapshotID = PageNone \/ (ts > 0 /\ t.lastSnapshotTs < ts)
     THEN Flushed(flushToTreeLog(t))
     ELSE [err |-> "ok", t |-> t, root |-> t.lastSnapshotID, ts |-> t.lastSnapshotTs]

\* ----------------------------------------------------------------- recovery
\* TBTree.findLastValidPage: the last commit entry of the tree log and the
\* offset it starts at. [err, ce, off]
findLastValidPage(log) ==
  LET C == {i \in 1..Len(log) : log[i].type = "commit"}
      i == CHOOSE c \in C : \A d \in C : d <= c
  IN IF C = {} THEN [err |-> "NoValidPageFound", ce |-> NoCommit, off |-> 0]
     ELSE [err |-> "ok", ce |-> log[i].ce, off |-> EndOff(log, i - 1)]

\* the TBTree that OpenWith builds over the two logs
NewTree(treeApp, historyApp) ==
  [open |-> TRUE, rootID |-> 0, lastSnapshotID |-> 0, rootTs |-> 0, lastSnapshotTs |-> 0,
   indexedEntryCount |-> 0, mutated |-> FALSE, depth |-> 0,
   headHistoryPageID |-> PageNone, tailHistoryPageID |-> PageNone,
   bufferedHistoryData |-> 0, numPages |-> 0, stalePages |-> 0, snapshotCount |-> 0,
   syncThld |-> DefaultSyncThld, unsyncedBytes |-> 0, syncs |-> NoSyncs,
   wb |-> <<>>, treeApp |-> treeApp, historyApp |-> historyApp]

\* TBTree.recoverRootPage: [err, t]
recoverRootPage(t) ==
  LET Root(f, rp) ==
        IF rp.err # "ok" THEN [err |-> rp.err, t |-> t]
        ELSE IF ~rp.pg.root THEN [err |-> "CorruptedTreeLog", t |-> t]
        ELSE [err |-> "ok",
              t |-> [t EXCEPT !.treeApp = SetOffsetTree(@, f.off + CommitEntrySize),
                              !.historyApp = SetOffsetHistory(@, f.ce.HLogLastEntryOff),
                              !.rootTs = f.ce.Ts, !.rootID = f.off, !.lastSnapshotID = f.off,
                              !.lastSnapshotTs = f.ce.Ts,
                              !.indexedEntryCount = f.ce.IndexedEntryCount,
                              !.numPages = f.ce.TotalPages, !.stalePages = f.ce.StalePages]]
      Last(f) ==
        IF f.err # "ok"
        THEN [err |-> f.err, t |-> [t EXCEPT !.historyApp = SetOffsetHistory(@, 0)]]
        ELSE Root(f, readPage(t, f.off))
  IN Last(findLastValidPage(t.treeApp))

\* OpenWith: [err, t]
OpenWith(treeApp, historyApp) ==
  LET Root2(r) ==
        IF r.err = "NoValidPageFound"
        THEN [err |-> "ok", t |-> [r.t EXCEPT !.rootID = PageNone, !.lastSnapshotID = PageNone]]
        ELSE r
  IN Root2(recoverRootPage(NewTree(treeApp, historyApp)))

\* what is left of a TBTree when its process has gone: the two logs
Down(t) == [NewTree(t.treeApp, t.historyApp) EXCEPT !.open = FALSE,
              !.rootID = PageNone, !.lastSnapshotID = PageNone]

\* recoverLatestValidTreeSnapshot with the recoverSnap callback of Open: the
\* entries are tried in the order ReadDir lists them, a candidate on which
\* OpenWith fails is removed (appRemove) and counted, the first on which it
\* returns a tree ends the loop with 0 attempts. [found, t, attempts, dir, hist, log0]
RECURSIVE recoverLatestValidTreeSnapshot(_, _, _, _, _)
recoverLatestValidTreeSnapshot(entries, i, hist, attempts, kept) ==
  LET Tried(r) ==
        IF r.err = "ok"
        THEN [found |-> TRUE, t |-> r.t, attempts |-> 0,
              dir |-> kept \o SubSeq(entries, i, Len(entries)), hist |-> r.t.historyApp,
              log0 |-> entries[i].log]
        ELSE recoverLatestValidTreeSnapshot(entries, i + 1, r.t.historyApp, attempts + 1, kept)
  IN IF i > Len(entries)
     THEN [found |-> FALSE, t |-> Down(NewTree(<<>>, hist)), attempts |-> attempts,
           dir |-> kept, hist |-> hist, log0 |-> <<>>]
     ELSE Tried(OpenWith(entries[i].log, hist))

\* Open, the whole call: [ret, t, dir, log0].  When no snapshot was recovered
\* after one attempt or more, the warning is built with t.Path() on a nil t:
\* the call panics.
OpenCall(entries, treeApp, historyApp) ==
  LET Base(r) == [ret |-> r.err, t |-> r.t, dir |-> entries, log0 |-> treeApp]
      Snap(r) ==
        IF r.found THEN [ret |-> "ok", t |-> r.t, dir |-> r.dir, log0 |-> r.log0]
        ELSE IF r.attempts > 0
        THEN [ret |-> "panic", t |-> NewTree(treeApp, r.hist), dir |-> r.dir, log0 |-> treeApp]
        ELSE Base(OpenWith(treeApp, historyApp))
  IN Snap(recoverLatestValidTreeSnapshot(entries, 1, historyApp, 0, <<>>))

\* the pages of log0 that are no longer in log1, with their ids
Cut(log0, log1) ==
  {[id |-> EndOff(log0, i), pg |-> log0[i].pg] :
     i \in {j \in (Len(log1) + 1)..Len(log0) : log0[j].type = "page"}}

\* ------------------------------------------------------------------- state
\* ------------------------------------------------------ indexer manager
\* NewIndexerManager: no index, no ledger, the counter at zero. objs holds the
\* index objects made so far (a *index is its position in objs); indexes
\* holds, per ledger, the objects registered.
Ledgers == {1}
NewIndexerManager ==
  [closed |-> FALSE, nextIndexID |-> 0, objs |-> <<>>, indexes |-> [l \in Ledgers |-> <<>>]]

\* math.MaxUint16 and the modulus of atomic.Uint32, scaled down together so
\* that the counter can be driven round: tree ids are 0..MaxTreeID, the
\* counter counts modulo IndexIDWrap.
MaxTreeID == 1
IndexIDWrap == 4
MaxIndexes == 3
Prefixes == {<<>>, <<1>>, <<1, 2>>}
IndexSpecs == {[target |-> p, source |-> q] : p \in Prefixes, q \in {<<>>, <<1>>}}
NoIndex == 0

\* bytes.HasPrefix(s, p)
HasPrefix(s, p) == Len(p) <= Len(s) /\ SubSeq(s, 1, Len(p)) = p

\* the *index that Indexer.newIndex returns: the tree opened with the id, the
\* ledger and the spec; not closed, not deleted
newIndex(id, l, spec) ==
  [id |-> id, ledger |-> l, target |-> spec.target, closed |-> FALSE, deleted |-> FALSE]

\* index.Close: the close guard lets one Close through, every later one fails
indexClose(m, o) ==
  IF m.objs[o].closed
  THEN [m |-> m, err |-> "AlreadyClosed"]
  ELSE [m |-> [m EXCEPT !.objs[o].closed = TRUE], err |-> "ok"]

RECURSIVE closeAll(_, _)
closeAll(m, os) ==
  IF os = <<>> THEN m ELSE closeAll(indexClose(m, Head(os)).m, Tail(os))

\* IndexerManager.InitIndexing, under m.mtx.Lock. env is what the directory
\* and the ledger make of it: tbtree.Open fails ("newIndex"), the index is
\* ahead of the ledger ("corrupted"), or neither ("ok").
InitIndexingCall(m, l, spec, env) ==
  IF m.closed THEN [m |-> m, ret |-> "AlreadyClosed", idx |-> NoIndex]
  ELSE IF Len(spec.target) = 0 /\ Len(spec.source) > 0
  THEN [m |-> m, ret |-> "IllegalArguments", idx |-> NoIndex]
  ELSE IF \E i \in 1..Len(m.indexes[l]) : m.objs[m.indexes[l][i]].target = spec.target
  THEN [m |-> m, ret |-> "IndexAlreadyInitialized", idx |-> NoIndex]
  ELSE LET nextIndexID == m.nextIndexID
           m1 == [m EXCEPT !.nextIndexID = (@ + 1) % IndexIDWrap]
           m2 == [m1 EXCEPT !.objs = Append(@, newIndex(nextIndexID % (MaxTreeID + 1), l, spec))]
           m3 == [m2 EXCEPT !.indexes[l] = Append(@, Len(m2.objs))]
       IN IF nextIndexID > MaxTreeID
          THEN [m |-> m1, ret |-> "IndexLimitExceeded", idx |-> NoIndex]
          ELSE IF env = "newIndex" THEN [m |-> m1, ret |-> "newIndex", idx |-> NoIndex]
          ELSE IF env = "corrupted" THEN [m |-> m2, ret |-> "CorruptedIndex", idx |-> NoIndex]
          ELSE [m |-> m3, ret |-> "ok", idx |-> Len(m2.objs)]

\* IndexerManager.closeIndexing: the first index of the ledger whose target
\* prefix is a prefix of the argument is closed and returned
closeIndexing(m, l, prefix) ==
  LET S == {i \in 1..Len(m.indexes[l]) : HasPrefix(prefix, m.objs[m.indexes[l][i]].target)}
      i == CHOOSE j \in S : \A k \in S : j <= k
      c == indexClose(m, m.indexes[l][i])
  IN IF S = {} THEN [m |-> m, idx |-> NoIndex, err |-> "IndexNotFound"]
     ELSE [m |-> c.m, idx |-> m.indexes[l][i], err |-> c.err]

\* removeIndex: the first index whose target prefix equals the argument is
\* overwritten with the head of the slice and the head is cut off
removeIndex(objs, indexes, prefix) ==
  LET S == {i \in 1..Len(indexes) : objs[indexes[i]].target = prefix}
      i == CHOOSE j \in S : \A k \in S : j <= k
  IN IF S = {} THEN indexes ELSE Tail([indexes EXCEPT ![i] = indexes[1]])

\* IndexerManager.CloseIndexing, under m.mtx.RLock
CloseIndexingCall(m, l, prefix) ==
  IF m.closed THEN [m |-> m, ret |-> "AlreadyClosed", idx |-> NoIndex]
  ELSE LET c == closeIndexing(m, l, prefix)
       IN [m |-> c.m, ret |-> c.err, idx |-> c.idx]

\* IndexerManager.DeleteIndexing, under m.mtx.Lock. env = "RemoveAll": the
\* directory of the index cannot be removed.
DeleteIndexingCall(m, l, prefix, env) ==
  IF m.closed THEN [m |-> m, ret |-> "AlreadyClosed", idx |-> NoIndex]
  ELSE LET c == closeIndexing(m, l, prefix)
           m1 == [c.m EXCEPT !.indexes[l] = removeIndex(c.m.objs, @, prefix)]
           m2 == [m1 EXCEPT !.objs[c.idx].deleted = TRUE]
       IN IF c.err = "IndexNotFound" THEN [m |-> c.m, ret |-> "IndexNotFound", idx |-> NoIndex]
          ELSE IF c.err = "AlreadyClosed" /\ m.objs[c.idx].deleted
          THEN [m |-> c.m, ret |-> "IndexNotFound", idx |-> NoIndex]
          ELSE IF c.err # "ok" THEN [m |-> c.m, ret |-> c.err, idx |-> NoIndex]
          ELSE IF env = "RemoveAll" THEN [m |-> c.m, ret |-> "RemoveAll", idx |-> NoIndex]
          ELSE [m |-> m2, ret |-> "ok", idx |-> c.idx]

\* IndexerManager.Close, under m.mtx.Lock: every registered index is closed,
\* whatever its Close returns, and the manager is closed
IndexerManagerCloseCall(m) ==
  IF m.closed THEN [m |-> m, ret |-> "AlreadyClosed"]
  ELSE LET RECURSIVE each(_, _)
           each(mm, ls) ==
             IF ls = {} THEN mm
             ELSE LET l == CHOOSE x \in ls : TRUE
                  IN each(closeAll(mm, mm.indexes[l]), ls \ {l})
       IN [m |-> [each(m, Ledgers) EXCEPT !.closed = TRUE], ret |-> "ok"]

\* IndexerManager.Flush, under m.mtx.RLock: env is what flushIndexes returns
IndexerManagerFlushCall(m, env) ==
  IF m.closed THEN [m |-> m, ret |-> "AlreadyClosed"] ELSE [m |-> m, ret |-> env]

\* ledgerIndexes without its closed check
ledgerIndexesUnchecked(m, l) == [indexes |-> m.indexes[l], err |-> "ok"]

\* IndexerManager.ledgerIndexes, under m.mtx.RLock
ledgerIndexes(m, l) ==
  IF m.closed THEN [indexes |-> <<>>, err |-> "AlreadyClosed"]
  ELSE [indexes |-> m.indexes[l], err |-> "ok"]

\* the loop of IndexerManager.GetIndexFor over the slice it was given
GetIndexForScan(m, indexes, key) ==
  LET S == {i \in 1..Len(indexes) :
              ~m.objs[indexes[i]].closed /\ HasPrefix(key, m.objs[indexes[i]].target)}
      i == CHOOSE j \in S : \A k \in S : j <= k
  IN IF S = {} THEN [ret |-> "IndexNotFound", idx |-> NoIndex]
     ELSE [ret |-> "ok", idx |-> indexes[i]]

VARIABLES
  t,        \* the TBTree: its fields, its write buffer and its two logs
  mtx,      \* t.mtx: [w |-> a writer holds it, r |-> number of shared holders]
  snaps,    \* the open snapshots
  th,       \* the calls in progress, one per thread
  last,     \* the last completed call and what it returned
  written,  \* per key, the (value, ts) pairs of the successful inserts that
            \* the tree in memory stands for, oldest first
  nIns,     \* number of successful inserts so far
  dropped,  \* the pages that recovery has cut off the tree log, with their ids
  dir,      \* the tree_<ts> snapshot directories beside the base tree log, in
            \* the order ReadDir lists them: [ts, log]
  m         \* the IndexerManager: its fields and the index objects it has made

vars == <<t, mtx, snaps, th, last, written, nIns, dropped, dir, m>>

MaxSnaps == 1
MaxSnapInserts == 4
EntryCounts == {1}
TornSizes == {CommitEntrySize \div 2}
Threads == {1, 2}

Call(op, ret) == [op |-> op, ret |-> ret]

Free == [w |-> FALSE, r |-> 0]
Idle == [pc |-> "idle", e |-> NoEntry, rootTs |-> 0, ctx |-> "live", waited |-> FALSE]

\* the commit entry a flush has just written carries the writes it stands
\* for; Recovered is what the last commit entry of a log carries
Stamp(t0, t1, w) ==
  IF Len(t1.treeApp) > Len(t0.treeApp) /\ t1.treeApp[Len(t1.treeApp)].type = "commit"
  THEN [t1 EXCEPT !.treeApp[Len(t1.treeApp)].gh = w]
  ELSE t1

Recovered(log) ==
  LET C == {i \in 1..Len(log) : log[i].type = "commit"}
  IN IF C = {} THEN NoWrites ELSE log[CHOOSE c \in C : \A d \in C : d <= c].gh

Wrote(w, e) == [w EXCEPT ![e.key] = Append(@, [value |-> e.value, ts |-> e.ts])]

Init ==
  /\ t = OpenWith(<<>>, <<>>).t
  /\ mtx = Free
  /\ snaps = {}
  /\ th = [i \in Threads |-> Idle]
  /\ last = Call("Open", "ok")
  /\ written = NoWrites
  /\ nIns = 0
  /\ dropped = {}
  /\ dir = <<>>
  /\ m = NewIndexerManager

\* ------------------------------------------------ actions, one call each
\* TBTree.Insert
Insert(k, v, ts) ==
  /\ t.open
  /\ LET Returned(c) ==
           /\ t' = c.t
           /\ last' = Call("Insert", c.ret)
           /\ written' = IF c.ret = "ok" THEN Wrote(written, Entry(k, v, ts)) ELSE written
           /\ nIns' = IF c.ret = "ok" THEN nIns + 1 ELSE nIns
     IN Returned(InsertCall(t, mtx, Entry(k, v, ts)))
  /\ UNCHANGED <<mtx, snaps, th, dropped, dir, m>>

\* TBTree.Advance
Advance(ts, n) ==
  /\ t.open
  /\ LET Returned(c) == t' = c.t /\ last' = Call("Advance", c.ret)
     IN Returned(AdvanceCall(t, mtx, ts, n))
  /\ UNCHANGED <<mtx, snaps, th, written, nIns, dropped, dir, m>>

\* TBTree.Flush: waits for the lock
Flush ==
  /\ t.open /\ TryLock(mtx)
  /\ LET Returned(f) == t' = Stamp(t, f.t, written) /\ last' = Call("Flush", f.err)
     IN Returned(flushToTreeLog(t))
  /\ UNCHANGED <<mtx, snaps, th, written, nIns, dropped, dir, m>>

\* TBTree.Close
Close ==
  /\ t.open /\ TryLock(mtx)
  /\ LET Flushed(f) ==
           IF f.err # "ok"
           THEN /\ last' = Call("Close", f.err)
                /\ t' = f.t
           ELSE /\ last' = Call("Close", "ok")
                /\ t' = Down(Stamp(t, f.t, written))
     IN IF t.snapshotCount > 0
        THEN last' = Call("Close", "ActiveSnapshots") /\ UNCHANGED t
        ELSE Flushed(flushToTreeLog(t))
  /\ UNCHANGED <<mtx, snaps, th, written, nIns, dropped, dir, m>>

\* Open on the directory of a tree that is closed or whose process has gone
Open ==
  /\ ~t.open
  /\ LET Returned(c) ==
           /\ last' = Call("Open", c.ret)
           /\ t' = IF c.ret = "ok" THEN c.t ELSE Down(c.t)
           /\ dir' = c.dir
           /\ dropped' = IF c.ret = "ok" THEN dropped \cup Cut(c.log0, c.t.treeApp) ELSE dropped
     IN Returned(OpenCall(dir, t.treeApp, t.historyApp))
  /\ UNCHANGED <<mtx, snaps, th, written, nIns, m>>

\* The process stops: between two calls, or inside a flush after the history
\* log has been flushed and nRecs records of the batch (its pages, then the
\* commit entry) have reached the tree log, with or without a torn tail (part
\* of the next page or of the commit entry).
Crash ==
  /\ t.open
  /\ LET Stopped(fs) ==
           \E nRecs \in 0..(Len(fs.treeApp) - Len(t.treeApp)), torn \in TornSizes \cup {0} :
             /\ nRecs = Len(fs.treeApp) - Len(t.treeApp) => torn = 0
             /\ t' = Down([t EXCEPT
                       !.historyApp = fs.historyApp,
                       !.treeApp = SubSeq(fs.treeApp, 1, Len(t.treeApp) + nRecs)
                                     \o (IF torn = 0 THEN <<>> ELSE <<TornRec(torn)>>)])
     IN \/ t' = Down(t)
        \/ t.mutated /\ TryLock(mtx) /\ Stopped(Stamp(t, flushTo(t).t, written))
  /\ mtx' = Free
  /\ snaps' = {}
  /\ written' = Recovered(t'.treeApp)
  /\ last' = Call("Crash", "ok")
  /\ UNCHANGED <<th, nIns, dropped, dir, m>>

\* the identity of the next Snapshot object: two snapshots of one root are two objects
FreeSnap == CHOOSE i \in 1..MaxSnaps : \A s \in snaps : s.id # i

\* TBTree.WriteSnapshot: the shared lock stays held by the snapshot
WriteSnapshot ==
  /\ t.open /\ ~mtx.w /\ Cardinality(snaps) < MaxSnaps
  /\ snaps' = snaps \cup {[id |-> FreeSnap, root |-> t.rootID, ts |-> t.rootTs,
                           write |-> TRUE,
                           seen |-> [k \in Keys |-> SnapGet(t, t.rootID, k)]]}
  /\ mtx' = RLock(mtx)
  /\ t' = [t EXCEPT !.snapshotCount = @ + 1]
  /\ last' = Call("WriteSnapshot", "ok")
  /\ UNCHANGED <<th, written, nIns, dropped, dir, m>>

\* TBTree.ReadSnapshot: no lock is taken
ReadSnapshot ==
  /\ t.open /\ Cardinality(snaps) < MaxSnaps
  /\ IF t.lastSnapshotID = PageNone
     THEN /\ last' = Call("ReadSnapshot", "NoSnapshotAvailable")
          /\ UNCHANGED <<t, snaps>>
     ELSE /\ snaps' = snaps \cup {[id |-> FreeSnap, root |-> t.lastSnapshotID,
                                   ts |-> t.lastSnapshotTs, write |-> FALSE,
                                   seen |-> [k \in Keys |-> SnapGet(t, t.lastSnapshotID, k)]]}
          /\ t' = [t EXCEPT !.snapshotCount = @ + 1]
          /\ last' = Call("ReadSnapshot", "ok")
  /\ UNCHANGED <<mtx, th, written, nIns, dropped, dir, m>>

\* Snapshot.Close
CloseSnapshot(s) ==
  /\ t.open /\ s \in snaps
  /\ snaps' = snaps \ {s}
  /\ mtx' = IF s.write THEN RUnlock(mtx) ELSE mtx
  /\ t' = [t EXCEPT !.snapshotCount = @ - 1]
  /\ last' = Call("CloseSnapshot", "ok")
  /\ UNCHANGED <<th, written, nIns, dropped, dir, m>>

\* TBTree.SnapshotMustIncludeTs and TBTree.SnapshotAtTs: the read snapshot is
\* made at the root and with the ts that ensureLatestSnapshotContainsTs
\* returns (SnapshotAtTs: with the ts asked for, when it is not 0)
SnapshotWithTs(op, ts, atTs) ==
  /\ t.open /\ TryLock(mtx) /\ Cardinality(snaps) < MaxSnaps
  /\ LET Returned(r) ==
           /\ last' = Call(op, r.err)
           /\ IF r.err # "ok"
              THEN t' = Stamp(t, r.t, written) /\ UNCHANGED snaps
              ELSE /\ t' = [Stamp(t, r.t, written) EXCEPT !.snapshotCount = @ + 1]
                   /\ snaps' = snaps \cup
                        {[id |-> FreeSnap, root |-> r.root,
                          ts |-> IF atTs /\ ts # 0 THEN ts ELSE r.ts, write |-> FALSE,
                          seen |-> [k \in Keys |-> SnapGet(r.t, r.root, k)]]}
     IN Returned(ensureLatestSnapshotContainsTs(t, ts))
  /\ UNCHANGED <<mtx, th, written, nIns, dropped, dir, m>>

SnapshotMustIncludeTs(ts) == SnapshotWithTs("SnapshotMustIncludeTs", ts, FALSE)

SnapshotAtTs(ts) == SnapshotWithTs("SnapshotAtTs", ts, TRUE)

\* one tree over its directory: writes, flushes, close, crash and recovery
Next ==
  \/ \E k \in Keys, v \in Values, ts \in Timestamps : nIns < MaxInserts /\ Insert(k, v, ts)
  \/ Flush
  \/ Close
  \/ Open
  \/ Crash

Spec == Init /\ [][Next]_vars

\* one open tree with snapshots opened and closed between the calls
NextSnap ==
  \/ \E k \in Keys, v \in Values, ts \in Timestamps : nIns < MaxSnapInserts /\ Insert(k, v, ts)
  \/ Flush
  \/ WriteSnapshot
  \/ ReadSnapshot
  \/ \E s \in snaps : CloseSnapshot(s)

SpecSnap == Init /\ [][NextSnap]_vars

\* ------------------------------------- Open over a directory with snapshots
\* What a process finds when it starts: the base tree log and up to
\* MaxDirEntries directories tree_<ts> (left by compactions), each holding a
\* tree log that is empty, whole, or ends in a commit entry whose root page is
\* not a root page.
MaxDirEntries == 2

GoodLog(k, ts) ==
  <<PageRec([NewLeafPage EXCEPT !.root = TRUE, !.es = <<Entry(k, 1, ts)>>]),
    CommitRec(CommitEntry(ts, 0, 1, 0, 0), NoWrites)>>

BadRootLog(k, ts) ==
  <<PageRec([NewLeafPage EXCEPT !.es = <<Entry(k, 1, ts)>>]),
    CommitRec(CommitEntry(ts, 0, 1, 0, 0), NoWrites)>>

SnapLogs(ts) == {<<>>, GoodLog(1, ts), BadRootLog(1, ts)}
BaseLogs == {<<>>, GoodLog(2, MaxTs), BadRootLog(2, MaxTs)}

\* the history log the directory holds: empty, or one record of an earlier write
HistLogs == {<<>>, <<HistoryEntry(OffsetNone, 1, 1)>>}

DirEntries == UNION {[ts : {ts}, log : SnapLogs(ts)] : ts \in 1..MaxTs}

Listings ==
  UNION {{l \in [1..n -> DirEntries] : \A i, j \in 1..n : i # j => l[i].ts # l[j].ts} :
           n \in 0..MaxDirEntries}

InitOpen ==
  /\ \E base \in BaseLogs, hist \in HistLogs : t = Down(NewTree(base, hist))
  /\ dir \in Listings
  /\ m = NewIndexerManager
  /\ mtx = Free
  /\ snaps = {}
  /\ th = [i \in Threads |-> Idle]
  /\ last = Call("Start", "ok")
  /\ written = NoWrites
  /\ nIns = 0
  /\ dropped = {}

\* the process starts on the directory it found and calls Open, and again
\* after a start that failed
NextOpen == Open

SpecOpen == InitOpen /\ [][NextOpen]_vars

\* ------------------------------------------ Advance and snapshots at a ts
\* one open tree whose timestamp is advanced between inserts and flushes, and
\* read snapshots that must include a timestamp
MaxAdvInserts == 2

NextAdv ==
  \/ \E k \in Keys, v \in Values, ts \in Timestamps : nIns < MaxAdvInserts /\ Insert(k, v, ts)
  \/ \E ts \in Timestamps, n \in EntryCounts : Advance(ts, n)
  \/ Flush
  \/ \E ts \in Timestamps : SnapshotMustIncludeTs(ts)
  \/ \E ts \in Timestamps : SnapshotAtTs(ts)
  \/ \E s \in snaps : CloseSnapshot(s)

SpecAdv == Init /\ [][NextAdv]_vars

\* --------------------------------------- actions, the steps of concurrent calls
\* Calls of several threads on one open tree, each cut where it reads or
\* writes shared state: the timestamp checks, the lock, the locked section.
MaxConcInserts == 2
ConcEntries == {Entry(1, 1, ts) : ts \in Timestamps}

Return(i, op, ret) ==
  /\ th' = [th EXCEPT ![i] = Idle]
  /\ last' = Call(op, ret)

\* Insert: e.Ts == 0, e.Ts < t.Ts()
InsertCheck(i, e) ==
  /\ th[i].pc = "idle" /\ t.open /\ nIns < MaxConcInserts
  /\ IF ValidInsertTs(e.ts, t.rootTs)
     THEN th' = [th EXCEPT ![i] = [Idle EXCEPT !.pc = "InsertTryLock", !.e = e]]
            /\ UNCHANGED last
     ELSE Return(i, "Insert", "InvalidTimestamp")
  /\ UNCHANGED <<t, mtx, snaps, written, nIns, dropped, dir, m>>

\* Insert: t.mtx.TryLock()
InsertTryLock(i) ==
  /\ th[i].pc = "InsertTryLock"
  /\ IF TryLock(mtx)
     THEN /\ mtx' = [mtx EXCEPT !.w = TRUE]
          /\ th' = [th EXCEPT ![i].pc = "InsertLocked"]
          /\ UNCHANGED last
     ELSE Return(i, "Insert", "TreeLocked") /\ UNCHANGED mtx
  /\ UNCHANGED <<t, snaps, written, nIns, dropped, dir, m>>

\* Insert: the locked section and the deferred Unlock
InsertUnlock(i) ==
  /\ th[i].pc = "InsertLocked"
  /\ LET Returned(r) ==
           /\ t' = r.t
           /\ written' = IF r.err = "ok" THEN Wrote(written, th[i].e) ELSE written
           /\ nIns' = IF r.err = "ok" THEN nIns + 1 ELSE nIns
           /\ Return(i, "Insert", r.err)
     IN Returned(InsertLocked(t, th[i].e))
  /\ mtx' = [mtx EXCEPT !.w = FALSE]
  /\ UNCHANGED <<snaps, dropped, dir, m>>

\* Advance: rootTs := t.Ts()
AdvanceLoad(i, ts, n) ==
  /\ th[i].pc = "idle" /\ t.open
  /\ th' = [th EXCEPT ![i] = [Idle EXCEPT !.pc = "AdvanceCheck", !.rootTs = t.rootTs,
                                           !.e = Entry(0, n, ts)]]
  /\ UNCHANGED <<t, mtx, snaps, last, written, nIns, dropped, dir, m>>

\* Advance: ts == t.Ts(), ts < rootTs
AdvanceCheck(i) ==
  /\ th[i].pc = "AdvanceCheck"
  /\ IF th[i].e.ts = t.rootTs THEN Return(i, "Advance", "ok")
     ELSE IF th[i].e.ts < th[i].rootTs THEN Return(i, "Advance", "InvalidTimestamp")
     ELSE th' = [th EXCEPT ![i].pc = "AdvanceTryLock", ![i].rootTs = 0] /\ UNCHANGED last
  /\ UNCHANGED <<t, mtx, snaps, written, nIns, dropped, dir, m>>

\* Advance: t.mtx.TryLock()
AdvanceTryLock(i) ==
  /\ th[i].pc = "AdvanceTryLock"
  /\ IF TryLock(mtx)
     THEN /\ mtx' = [mtx EXCEPT !.w = TRUE]
          /\ th' = [th EXCEPT ![i].pc = "AdvanceLocked"]
          /\ UNCHANGED last
     ELSE Return(i, "Advance", "TreeLocked") /\ UNCHANGED mtx
  /\ UNCHANGED <<t, snaps, written, nIns, dropped, dir, m>>

\* Advance: the two stores and Unlock
AdvanceUnlock(i) ==
  /\ th[i].pc = "AdvanceLocked"
  /\ t' = [t EXCEPT !.rootTs = th[i].e.ts, !.indexedEntryCount = th[i].e.value]
  /\ mtx' = [mtx EXCEPT !.w = FALSE]
  /\ Return(i, "Advance", "ok")
  /\ UNCHANGED <<snaps, written, nIns, dropped, dir, m>>

\* Flush: t.mtx.Lock()
FlushLock(i) ==
  /\ th[i].pc = "idle" /\ t.open /\ TryLock(mtx)
  /\ mtx' = [mtx EXCEPT !.w = TRUE]
  /\ th' = [th EXCEPT ![i] = [Idle EXCEPT !.pc = "FlushLocked"]]
  /\ UNCHANGED <<t, snaps, last, written, nIns, dropped, dir, m>>

\* Flush: flushToTreeLog and the deferred Unlock
FlushUnlock(i) ==
  /\ th[i].pc = "FlushLocked"
  /\ LET Returned(f) == t' = Stamp(t, f.t, written) /\ Return(i, "Flush", f.err)
     IN Returned(flushToTreeLog(t))
  /\ mtx' = [mtx EXCEPT !.w = FALSE]
  /\ UNCHANGED <<snaps, written, nIns, dropped, dir, m>>

NextConc ==
  \/ \E i \in Threads, e \in ConcEntries : InsertCheck(i, e)
  \/ \E i \in Threads : InsertTryLock(i)
  \/ \E i \in Threads : InsertUnlock(i)
  \/ \E i \in Threads, ts \in Timestamps, n \in EntryCounts : AdvanceLoad(i, ts, n)
  \/ \E i \in Threads : AdvanceCheck(i)
  \/ \E i \in Threads : AdvanceTryLock(i)
  \/ \E i \in Threads : AdvanceUnlock(i)
  \/ \E i \in Threads : FlushLock(i)
  \/ \E i \in Threads : FlushUnlock(i)

SpecConc == Init /\ [][NextConc]_vars

\* ------------------------------ snapshot calls that carry a context, in steps
\* SnapshotAtTs and SnapshotMustIncludeTs of several threads, each cut at its
\* one blocking point, t.mtx.Lock() of ensureLatestSnapshotContainsTs, while
\* writes go on and write snapshots hold the shared lock; the caller may
\* cancel the context of a call that has not returned.
MaxCtxInserts == 1
SnapshotOps == {"SnapshotAtTs", "SnapshotMustIncludeTs"}

\* the call is made: the thread reaches t.mtx.Lock()
SnapshotEnter(i, op, ts) ==
  /\ th[i].pc = "idle" /\ t.open
  /\ th' = [th EXCEPT ![i] = [Idle EXCEPT !.pc = op, !.e = Entry(0, 0, ts)]]
  /\ UNCHANGED <<t, mtx, snaps, last, written, nIns, dropped, dir, m>>

\* the caller cancels the context of the call in progress; waited records
\* that the lock was held by someone else at that moment
Cancel(i) ==
  /\ th[i].pc \in SnapshotOps /\ th[i].ctx = "live"
  /\ th' = [th EXCEPT ![i].ctx = "cancelled", ![i].waited = ~TryLock(mtx)]
  /\ UNCHANGED <<t, mtx, snaps, last, written, nIns, dropped, dir, m>>

\* t.mtx.Lock() is granted; the locked section, the deferred Unlock and
\* newReadSnapshot follow. ctx is not read anywhere on the way.
SnapshotLocked(i) ==
  /\ th[i].pc \in SnapshotOps /\ TryLock(mtx) /\ Cardinality(snaps) < MaxSnaps
  /\ LET Returned(r) ==
           /\ Return(i, th[i].pc, r.err)
           /\ IF r.err # "ok"
              THEN t' = Stamp(t, r.t, written) /\ UNCHANGED snaps
              ELSE /\ t' = [Stamp(t, r.t, written) EXCEPT !.snapshotCount = @ + 1]
                   /\ snaps' = snaps \cup
                        {[id |-> FreeSnap, root |-> r.root,
                          ts |-> IF th[i].pc = "SnapshotAtTs" /\ th[i].e.ts # 0
                                 THEN th[i].e.ts ELSE r.ts,
                          write |-> FALSE,
                          seen |-> [k \in Keys |-> SnapGet(r.t, r.root, k)]]}
     IN Returned(ensureLatestSnapshotContainsTs(t, th[i].e.ts))
  /\ UNCHANGED <<mtx, written, nIns, dropped, dir, m>>

NextCtx ==
  \/ \E k \in Keys, v \in Values, ts \in Timestamps : nIns < MaxCtxInserts /\ Insert(k, v, ts)
  \/ WriteSnapshot
  \/ \E s \in snaps : CloseSnapshot(s)
  \/ \E i \in Threads, op \in SnapshotOps, ts \in Timestamps : SnapshotEnter(i, op, ts)
  \/ \E i \in Threads : Cancel(i)
  \/ \E i \in Threads : SnapshotLocked(i)

SpecCtx == Init /\ [][NextCtx]_vars

\* ------------------------------------------------- Close over failing logs
MaxCloseInserts == 2

\* TBTree.Close on logs of which the calls in faults fail
CloseIO(faults) ==
  /\ t.open /\ TryLock(mtx)
  /\ LET Returned(c) ==
           /\ last' = [op |-> "Close", ret |-> c.ret, steps |-> c.steps, faults |-> faults]
           /\ t' = IF "treeApp.Close" \in {c.steps[i] : i \in 1..Len(c.steps)}
                   THEN Down(Stamp(t, c.t, written))
                   ELSE c.t
     IN Returned(CloseCall(t, faults))
  /\ UNCHANGED <<mtx, snaps, th, written, nIns, dropped, dir, m>>

NextClose ==
  \/ \E k \in Keys, v \in Values, ts \in Timestamps : nIns < MaxCloseInserts /\ Insert(k, v, ts)
  \/ ReadSnapshot
  \/ \E s \in snaps : CloseSnapshot(s)
  \/ \E faults \in IOFaults : CloseIO(faults)
  \/ Open

SpecClose == Init /\ [][NextClose]_vars

\* --------------------------------------------- Get of readers beside a writer
\* Reader threads call TBTree.Get (WriteSnapshot, Snapshot.Get, Snapshot.Close)
\* over and over while the one writer inserts with increasing timestamps.
\* th[i].e is what reader i got from its last Get of the key th[i].e.key
\* (value 0: nothing yet, or KeyNotFound).
MaxReadInserts == 7
Readers == {1}
WriterEntries == {<<k, 1>> : k \in Keys} \cup {<<1, 2>>}

\* Get: WriteSnapshot takes the shared lock
GetRLock(i, k) ==
  /\ th[i].pc = "idle" /\ t.open /\ ~mtx.w
  /\ mtx' = RLock(mtx)
  /\ t' = [t EXCEPT !.snapshotCount = @ + 1]
  /\ th' = [th EXCEPT ![i].pc = "GetRLocked",
                       ![i].e = IF th[i].e.key = k THEN @ ELSE [NoEntry EXCEPT !.key = k]]
  /\ UNCHANGED <<snaps, last, written, nIns, dropped, dir, m>>

\* Get: Snapshot.Get at the root the snapshot was made of, and the deferred
\* Snapshot.Close, which releases the shared lock
GetRUnlock(i) ==
  /\ th[i].pc = "GetRLocked"
  /\ LET Returned(r) ==
           /\ th' = [th EXCEPT ![i].pc = "idle",
                                ![i].e = [NoEntry EXCEPT !.key = th[i].e.key,
                                                         !.value = IF r.err = "ok" THEN r.value ELSE 0,
                                                         !.ts = IF r.err = "ok" THEN r.ts ELSE 0]]
           /\ last' = Call("Get", r.err)
     IN Returned(Get(t, th[i].e.key))
  /\ mtx' = RUnlock(mtx)
  /\ t' = [t EXCEPT !.snapshotCount = @ - 1]
  /\ UNCHANGED <<snaps, written, nIns, dropped, dir, m>>

NextRead ==
  \/ \E w \in WriterEntries : nIns < MaxReadInserts /\ Insert(w[1], w[2], nIns + 1)
  \/ \E i \in Readers, k \in Keys : GetRLock(i, k)
  \/ \E i \in Readers : GetRUnlock(i)

SpecRead == Init /\ [][NextRead]_vars

\* ------------------------------------------------ the background sync task
\* One open tree whose syncThld is low enough for its flushes to launch the
\* task of maybeSync; the task runs beside the calls, in two steps.
MaxSyncInserts == 2
SyncThld == 2 * PageSize

InitSync ==
  /\ t = [OpenWith(<<>>, <<>>).t EXCEPT !.syncThld = SyncThld]
  /\ mtx = Free
  /\ snaps = {}
  /\ th = [i \in Threads |-> Idle]
  /\ last = Call("Open", "ok")
  /\ written = NoWrites
  /\ nIns = 0
  /\ dropped = {}
  /\ dir = <<>>
  /\ m = NewIndexerManager

\* the task starts: t.snapshotCount.Add(1)
SyncBegin ==
  /\ t.syncs.launched > 0
  /\ t' = [t EXCEPT !.syncs.launched = @ - 1, !.syncs.running = @ + 1,
                    !.snapshotCount = @ + 1]
  /\ UNCHANGED <<mtx, snaps, th, last, written, nIns, dropped, dir, m>>

\* the task syncs the two logs and ends: t.unsyncedBytes.Store(0),
\* t.snapshotCount.Add(^uint64(0))
SyncEnd ==
  /\ t.syncs.running > 0
  /\ t' = [t EXCEPT !.syncs.running = @ - 1, !.unsyncedBytes = 0,
                    !.snapshotCount = @ - 1]
  /\ UNCHANGED <<mtx, snaps, th, last, written, nIns, dropped, dir, m>>

NextSync ==
  \/ \E k \in Keys, v \in Values, ts \in Timestamps : nIns < MaxSyncInserts /\ Insert(k, v, ts)
  \/ Flush
  \/ SyncBegin
  \/ SyncEnd
  \/ ReadSnapshot
  \/ \E s \in snaps : CloseSnapshot(s)
  \/ Close

SpecSync == InitSync /\ [][NextSync]_vars

\* ------------------------------------- ReadSnapshot beside a Flush, in steps
\* ReadSnapshot takes no lock: it loads lastSnapshotTs, then lastSnapshotID.
\* flushToTreeLog, inside the lock, stores rootID and lastSnapshotID, then
\* lastSnapshotTs. Each call is cut between its two accesses.
MaxPubInserts == 2

\* flushToTreeLog up to t.lastSnapshotID.Store; the bytes written wait in the
\* thread's record for maybeSync
FlushStoreID(i) ==
  /\ th[i].pc = "FlushLocked"
  /\ LET Flushed(f) ==
           IF f.err # "ok"
           THEN /\ t' = f.t /\ mtx' = [mtx EXCEPT !.w = FALSE]
                /\ Return(i, "Flush", f.err)
           ELSE /\ t' = Stamp(t, [f.t EXCEPT !.rootID = f.res.rootID,
                                              !.lastSnapshotID = f.res.rootID], written)
                /\ th' = [th EXCEPT ![i].pc = "FlushStoredID",
                                     ![i].e = Entry(0, f.res.bytesWritten + f.hLogBytesWritten, 0)]
                /\ UNCHANGED <<mtx, last>>
     IN IF ~t.mutated
        THEN UNCHANGED t /\ mtx' = [mtx EXCEPT !.w = FALSE] /\ Return(i, "Flush", "ok")
        ELSE Flushed(flushTo(t))
  /\ UNCHANGED <<snaps, written, nIns, dropped, dir, m>>

\* flushToTreeLog from t.lastSnapshotTs.Store to its end, and Flush's Unlock
FlushStoreTs(i) ==
  /\ th[i].pc = "FlushStoredID"
  /\ t' = maybeSync([t EXCEPT !.lastSnapshotTs = t.rootTs,
                              !.headHistoryPageID = PageNone,
                              !.tailHistoryPageID = PageNone,
                              !.mutated = FALSE], th[i].e.value)
  /\ mtx' = [mtx EXCEPT !.w = FALSE]
  /\ Return(i, "Flush", "ok")
  /\ UNCHANGED <<snaps, written, nIns, dropped, dir, m>>

\* snapshot: ts := t.lastSnapshotTs.Load()
SnapshotLoadTs(i) ==
  /\ th[i].pc = "idle" /\ t.open /\ Cardinality(snaps) < MaxSnaps
  /\ th' = [th EXCEPT ![i] = [Idle EXCEPT !.pc = "SnapshotLoadID", !.rootTs = t.lastSnapshotTs]]
  /\ UNCHANGED <<t, mtx, snaps, last, written, nIns, dropped, dir, m>>

\* snapshot: snapRootID := t.lastSnapshotRootID() and newReadSnapshot
SnapshotLoadID(i) ==
  /\ th[i].pc = "SnapshotLoadID" /\ Cardinality(snaps) < MaxSnaps
  /\ IF t.lastSnapshotID = PageNone
     THEN /\ Return(i, "ReadSnapshot", "NoSnapshotAvailable")
          /\ UNCHANGED <<t, snaps>>
     ELSE /\ snaps' = snaps \cup {[id |-> FreeSnap, root |-> t.lastSnapshotID,
                                   ts |-> th[i].rootTs, write |-> FALSE,
                                   seen |-> [k \in Keys |-> SnapGet(t, t.lastSnapshotID, k)]]}
          /\ t' = [t EXCEPT !.snapshotCount = @ + 1]
          /\ Return(i, "ReadSnapshot", "ok")
  /\ UNCHANGED <<mtx, written, nIns, dropped, dir, m>>

NextPub ==
  \/ \E k \in Keys, v \in Values, ts \in Timestamps : nIns < MaxPubInserts /\ Insert(k, v, ts)
  \/ \E i \in Threads : FlushLock(i)
  \/ \E i \in Threads : FlushStoreID(i)
  \/ \E i \in Threads : FlushStoreTs(i)
  \/ \E i \in Threads : SnapshotLoadTs(i)
  \/ \E i \in Threads : SnapshotLoadID(i)
  \/ \E s \in snaps : CloseSnapshot(s)

SpecPub == Init /\ [][NextPub]_vars

\* ------------------------------------------- rewrites across Close and Open
\* one tree whose keys are rewritten with values of one byte, flushed, closed
\* and opened again, long enough for the history log to survive an Open
MaxHistInserts == 4
HistKeys == {1, 2}

NextHist ==
  \/ \E k \in HistKeys, ts \in Timestamps \ {0} : nIns < MaxHistInserts /\ Insert(k, 1, ts)
  \/ Flush
  \/ Close
  \/ Open

SpecHist == Init /\ [][NextHist]_vars

\* ------------------------------------------------ Flush over failing logs
\* one open tree whose flushes may fail in the tree log: at the first page of
\* the batch or at the commit entry
MaxFlushInserts == 2
MaxFlushLog == 4
FlushFaults == {"appendPage", "commit"}

\* (a failed flush may leave pages in the tree log: the log is kept short)
FlushIO(fault) ==
  /\ t.open /\ TryLock(mtx)
  /\ Len(t.treeApp) < MaxFlushLog
  /\ LET Returned(f) == t' = f.t /\ last' = Call("Flush", f.err)
     IN IF fault = "commit" THEN Returned(flushToTreeLogCommitFails(t))
        ELSE Returned(flushToTreeLogAppendFails(t))
  /\ UNCHANGED <<mtx, snaps, th, written, nIns, dropped, dir, m>>

NextFlushIO ==
  \/ \E k \in Keys, v \in Values, ts \in Timestamps : nIns < MaxFlushInserts /\ Insert(k, v, ts)
  \/ Flush
  \/ \E fault \in FlushFaults : FlushIO(fault)

SpecFlushIO == Init /\ [][NextFlushIO]_vars

\* ------------------------------------------------ the indexer manager
\* The calls of IndexerManager. A call that holds m.mtx from its first line
\* to its return is one action; ForEachIndex, CloseLedgerIndexing and
\* GetIndexFor give the lock back after the closed check and loop without
\* it, so they are two actions with the thread's frame in th[i].e.
IndexKeys == Prefixes
Managed(c, op) ==
  /\ m' = c.m
  /\ last' = [op |-> op, ret |-> c.ret, idx |-> c.idx]

Frame(op, l, key, indexes) ==
  [op |-> op, ledger |-> l, key |-> key, indexes |-> indexes, raced |-> FALSE]

Looping(i) == th[i].pc \in {"CloseLedgerIndexingLoop", "GetIndexForLoop"}

\* IndexerManager.InitIndexing
InitIndexing(l, spec, env) ==
  /\ Len(m.objs) < MaxIndexes
  /\ Managed(InitIndexingCall(m, l, spec, env), "InitIndexing")
  /\ UNCHANGED <<t, mtx, snaps, th, written, nIns, dropped, dir>>

\* IndexerManager.CloseIndexing
CloseIndexing(l, prefix) ==
  /\ Managed(CloseIndexingCall(m, l, prefix), "CloseIndexing")
  /\ UNCHANGED <<t, mtx, snaps, th, written, nIns, dropped, dir>>

\* IndexerManager.DeleteIndexing. removeIndex writes into the array that the
\* slices handed out by ledgerIndexes share: a loop over such a slice that is
\* under way has raced with it.
DeleteIndexing(l, prefix, env) ==
  /\ Managed(DeleteIndexingCall(m, l, prefix, env), "DeleteIndexing")
  /\ th' = [i \in Threads |->
              IF Looping(i) /\ th[i].e.ledger = l /\ m'.indexes[l] # m.indexes[l]
              THEN [th[i] EXCEPT !.e.raced = TRUE] ELSE th[i]]
  /\ UNCHANGED <<t, mtx, snaps, written, nIns, dropped, dir>>

\* IndexerManager.Flush
IndexerManagerFlush(env) ==
  /\ m' = IndexerManagerFlushCall(m, env).m
  /\ last' = [op |-> "Flush", ret |-> IndexerManagerFlushCall(m, env).ret, idx |-> NoIndex]
  /\ UNCHANGED <<t, mtx, snaps, th, written, nIns, dropped, dir>>

\* IndexerManager.Close
IndexerManagerClose ==
  /\ m' = IndexerManagerCloseCall(m).m
  /\ last' = [op |-> "Close", ret |-> IndexerManagerCloseCall(m).ret, idx |-> NoIndex]
  /\ UNCHANGED <<t, mtx, snaps, th, written, nIns, dropped, dir>>

\* IndexerManager.ForEachIndex and WaitForIndexingUpTo, which is ForEachIndex
\* with index.WaitForIndexingUpTo as onIndex: the closed check under RLock
ForEachIndexCheck(i, op, l) ==
  /\ th[i].pc = "idle"
  /\ IF m.closed
     THEN /\ th' = th
          /\ last' = [op |-> op, ret |-> "AlreadyClosed", idx |-> NoIndex]
     ELSE /\ th' = [th EXCEPT ![i] = [Idle EXCEPT !.pc = "ForEachIndexLoop",
                                                  !.e = Frame(op, l, <<>>, <<>>)]]
          /\ UNCHANGED last
  /\ UNCHANGED <<t, mtx, snaps, written, nIns, dropped, dir, m>>

\* ForEachIndex: the loop over m.indexes[ledgerID], read without the lock;
\* env is what onIndex returns for the first index
ForEachIndexLoop(i, env) ==
  /\ th[i].pc = "ForEachIndexLoop"
  /\ th' = [th EXCEPT ![i] = Idle]
  /\ last' = [op |-> th[i].e.op,
              ret |-> IF m.indexes[th[i].e.ledger] = <<>> THEN "ok" ELSE env,
              idx |-> NoIndex]
  /\ UNCHANGED <<t, mtx, snaps, written, nIns, dropped, dir, m>>

\* CloseLedgerIndexing and GetIndexFor: the call of ledgerIndexes
ledgerIndexesStep(i, op, l, key) ==
  /\ th[i].pc = "idle"
  /\ IF ledgerIndexes(m, l).err # "ok"
     THEN /\ th' = th
          /\ last' = [op |-> op, ret |-> ledgerIndexes(m, l).err, idx |-> NoIndex]
     ELSE /\ th' = [th EXCEPT ![i] = [Idle EXCEPT !.pc = op \o "Loop",
                                       !.e = Frame(op, l, key, ledgerIndexes(m, l).indexes)]]
          /\ UNCHANGED last
  /\ UNCHANGED <<t, mtx, snaps, written, nIns, dropped, dir, m>>

\* what a loop reads from its slice: the slice, or after a race any index of
\* the slice at each position
Views(i) ==
  IF th[i].e.raced
  THEN [1..Len(th[i].e.indexes) -> {th[i].e.indexes[j] : j \in 1..Len(th[i].e.indexes)}]
  ELSE {th[i].e.indexes}

\* IndexerManager.CloseLedgerIndexing: the loop; ErrAlreadyClosed of an index
\* is not an error of the call
CloseLedgerIndexingLoop(i) ==
  /\ th[i].pc = "CloseLedgerIndexingLoop"
  /\ \E view \in Views(i) : m' = closeAll(m, view)
  /\ th' = [th EXCEPT ![i] = Idle]
  /\ last' = [op |-> "CloseLedgerIndexing", ret |-> "ok", idx |-> NoIndex]
  /\ UNCHANGED <<t, mtx, snaps, written, nIns, dropped, dir>>

\* IndexerManager.GetIndexFor: the loop
GetIndexForLoop(i) ==
  /\ th[i].pc = "GetIndexForLoop"
  /\ \E view \in Views(i) :
       last' = [op |-> "GetIndexFor", ret |-> GetIndexForScan(m, view, th[i].e.key).ret,
                idx |-> GetIndexForScan(m, view, th[i].e.key).idx]
  /\ th' = [th EXCEPT ![i] = Idle]
  /\ UNCHANGED <<t, mtx, snaps, written, nIns, dropped, dir, m>>

NextMgr ==
  \/ \E l \in Ledgers, spec \in IndexSpecs, env \in {"ok", "newIndex", "corrupted"} :
       InitIndexing(l, spec, env)
  \/ \E l \in Ledgers, prefix \in Prefixes : CloseIndexing(l, prefix)
  \/ \E l \in Ledgers, prefix \in Prefixes, env \in {"ok", "RemoveAll"} :
       DeleteIndexing(l, prefix, env)
  \/ \E env \in {"ok", "flushIndexes"} : IndexerManagerFlush(env)
  \/ IndexerManagerClose

SpecMgr == Init /\ [][NextMgr]_vars

\* the manager under concurrent callers: every call, the three that loop
\* without the lock in two steps
MaxConcIndexes == 2
ConcPrefixes == {<<>>, <<1>>}
NextMgrConc ==
  \/ \E spec \in IndexSpecs :
       /\ Len(m.objs) < MaxConcIndexes
       /\ spec.target \in ConcPrefixes /\ spec.source = <<>>
       /\ InitIndexing(1, spec, "ok")
  \/ \E prefix \in ConcPrefixes : CloseIndexing(1, prefix)
  \/ \E prefix \in ConcPrefixes : DeleteIndexing(1, prefix, "ok")
  \/ \E env \in {"ok", "flushIndexes"} : IndexerManagerFlush(env)
  \/ IndexerManagerClose
  \/ \E i \in Threads, op \in {"ForEachIndex", "WaitForIndexingUpTo"} :
       ForEachIndexCheck(i, op, 1)
  \/ \E i \in Threads, env \in {"ok", "onIndex"} : ForEachIndexLoop(i, env)
  \/ \E i \in Threads : ledgerIndexesStep(i, "CloseLedgerIndexing", 1, <<>>)
  \/ \E i \in Threads, key \in ConcPrefixes : ledgerIndexesStep(i, "GetIndexFor", 1, key)
  \/ \E i \in Threads : CloseLedgerIndexingLoop(i)
  \/ \E i \in Threads : GetIndexForLoop(i)

SpecMgrConc == Init /\ [][NextMgrConc]_vars

\* --------------------------------------------------------------- properties
\* TBTree.getRevision followed from an entry's hOff: the history records
\* reached through prevOffset until OffsetNone. [ok, recs]
RECURSIVE HistoryChain(_, _, _)
HistoryChain(hlog, off, fuel) ==
  IF off = OffsetNone THEN [ok |-> TRUE, recs |-> <<>>]
  ELSE IF fuel = 0 \/ HistoryIndexAt(hlog, off) = 0 THEN [ok |-> FALSE, recs |-> <<>>]
  ELSE LET he == hlog[HistoryIndexAt(hlog, off)]
           Rest(r) == [ok |-> r.ok, recs |-> <<[value |-> he.value, ts |-> he.ts]>> \o r.recs]
       IN Rest(HistoryChain(hlog, he.prev, fuel - 1))

Reverse(q) == [i \in 1..Len(q) |-> q[Len(q) + 1 - i]]

\* the values written for a key before its current one, newest first
Earlier(w, k) == Reverse(SubSeq(w[k], 1, Len(w[k]) - 1))

\* what Get returns for key k of a tree that stands for the writes w
Expected(w, k) ==
  IF w[k] = <<>> THEN GetRes("KeyNotFound", NoEntry)
  ELSE [err |-> "ok", value |-> w[k][Len(w[k])].value, ts |-> w[k][Len(w[k])].ts,
        hc |-> Len(w[k]) - 1]

ChainOf(tt, k) ==
  LET At(x) == IF x.err = "ok" THEN HistoryChain(tt.historyApp, x.e.hoff, MaxSnapInserts + 1)
               ELSE [ok |-> TRUE, recs |-> Earlier(written, k)]
  IN At(SnapEntry(tt, tt.rootID, k))

HcOf(tt, k) ==
  LET At(x) == IF x.err = "ok" THEN x.e.hc ELSE Len(Earlier(written, k))
  IN At(SnapEntry(tt, tt.rootID, k))

\* C1: whenever the tree is open with nothing left to flush (after a Flush,
\* or after a Close and re-Open), every key's current entry with hC = k leads,
\* through hOff and the prevOffset of each record, to exactly k records of the
\* history log, and they are the k earlier values of that key, newest first.
C1_HistoryChainAfterFlushAndReopen ==
  (t.open /\ ~t.mutated) =>
    \A k \in Keys :
      /\ ChainOf(t, k).ok
      /\ Len(ChainOf(t, k).recs) = HcOf(t, k)
      /\ ChainOf(t, k).recs = Earlier(written, k)

\* the tree that Open builds over the logs of a closed or crashed tree
Reopened(tt) == OpenWith(tt.treeApp, tt.historyApp)

ReadsBack(r, w) == r.err = "ok" /\ \A k \in Keys : Get(r.t, k) = Expected(w, k)

\* C2: after successful inserts, a Flush and a successful Close, opening the
\* same directory again gives a tree whose Get returns, for every key, the
\* value, ts and hC of the key's last insert, and KeyNotFound for a key that
\* was never inserted.
C2_RoundTripAfterClose ==
  (~t.open /\ last = Call("Close", "ok")) => ReadsBack(Reopened(t), written)

\* C3: when the process stops, between two calls or at any point of a flush,
\* Open recovers the writes of the last commit entry left whole in the tree
\* log (the previous commit or the current one), and Get returns the committed
\* value of every key.
C3_CrashRecoversOneCommit ==
  (~t.open /\ last = Call("Crash", "ok")) => ReadsBack(Reopened(t), written)

\* C4: no step of concurrent Insert and Advance calls lowers rootTs.
C4_RootTsNeverDecreases == [][t'.rootTs >= t.rootTs]_vars

\* the entries of the tree: what the descent from the root finds for each key
TreeEntries(tt) ==
  {SnapEntry(tt, tt.rootID, k).e : k \in {x \in Keys : SnapEntry(tt, tt.rootID, x).err = "ok"}}

AllTs(w) == UNION {{w[k][i].ts : i \in 1..Len(w[k])} : k \in Keys}

\* C5: on an open tree rootTs is at least the ts of every stored entry and,
\* once something has been inserted, equals the largest ts inserted.
C5_RootTsIsMaxInsertedTs ==
  t.open =>
    /\ \A e \in TreeEntries(t) : e.ts <= t.rootTs
    /\ AllTs(written) # {} => t.rootTs \in AllTs(written) /\ \A x \in AllTs(written) : x <= t.rootTs

\* two inserts with different timestamps have succeeded
C5_Witness ==
  t.open /\ Cardinality(AllTs(written)) >= 2 /\ last = Call("Insert", "ok")

InsertInputs == {Entry(k, v, ts) : k \in Keys, v \in Values, ts \in Timestamps}

\* C6: in every state of an open tree, Insert of an entry with ts = 0 or
\* ts < rootTs returns InvalidTimestamp and leaves the whole tree (rootID,
\* rootTs, mutated, write buffer, pages) as it is, and Insert of an entry with
\* ts > 0 and ts >= rootTs does not return InvalidTimestamp.
C6_InvalidTimestampRejectedUnchanged ==
  t.open =>
    \A e \in InsertInputs :
      IF e.ts = 0 \/ e.ts < t.rootTs
      THEN InsertCall(t, mtx, e) = [ret |-> "InvalidTimestamp", t |-> t]
      ELSE InsertCall(t, mtx, e).ret # "InvalidTimestamp"

\* an Insert has been rejected for its timestamp on a tree that holds entries
C6_Witness ==
  t.open /\ t.rootTs = MaxTs /\ t.rootID # PageNone /\ last = Call("Insert", "InvalidTimestamp")

InLock == {"InsertLocked", "AdvanceLocked", "FlushLocked"}

MutEx ==
  /\ Cardinality({i \in Threads : th[i].pc \in InLock}) <= 1
  /\ mtx.w <=> \E i \in Threads : th[i].pc \in InLock

TryLockStep ==
  \A i \in Threads :
    (th[i].pc = "InsertTryLock" /\ th'[i] # th[i]) =>
      IF mtx.w
      THEN th'[i].pc = "idle" /\ last' = Call("Insert", "TreeLocked") /\ t' = t /\ mtx' = mtx
      ELSE th'[i].pc = "InsertLocked"

\* C7: an Insert at the lock always has a step to take; when another Insert,
\* Advance or Flush is inside its locked section that step returns TreeLocked
\* and changes neither the tree nor the lock; and at most one call is inside
\* a locked section at a time, so the inserts take effect one after another.
C7_InsertNeverWaitsForTheLock ==
  /\ [](MutEx /\ \A i \in Threads : th[i].pc = "InsertTryLock" => ENABLED InsertTryLock(i))
  /\ [][TryLockStep]_vars

\* an Insert has found the lock held by another call and returned TreeLocked
C7_Witness ==
  /\ last = Call("Insert", "TreeLocked")
  /\ \E i \in Threads : th[i].pc \in InLock

\* C8: every open snapshot returns for every key what it returned when it was
\* opened (KeyNotFound for a key inserted later, the same value for the others),
\* whatever Inserts and Flushes have happened since.
C8_SnapshotIsolation ==
  \A s \in snaps : \A k \in Keys : SnapGet(t, s.root, k) = s.seen[k]

ValidInputs == {e \in InsertInputs : ValidInsertTs(e.ts, t.rootTs)}

C10_ReadYourWritesWithoutFlush ==
  (t.open /\ t.treeApp = <<>>) => \A k \in Keys : Get(t, k) = Expected(written, k)

\* three inserts, one key written twice, none flushed
C10_Witness ==
  /\ t.open /\ t.treeApp = <<>> /\ nIns = MaxInserts
  /\ \E k \in Keys : Len(written[k]) >= 2

\* C11: on an open tree, for every key written n >= 1 times, GetRevision(key, v)
\* returns the value and ts of the v-th write for 1 <= v <= n and
\* KeyRevisionNotFound for v > n.
C11_GetRevisionReturnsEachWrite ==
  t.open =>
    \A k \in Keys : \A v \in 1..(MaxSnapInserts + 1) :
      written[k] # <<>> =>
        GetRevision(t, k, v) =
          IF v <= Len(written[k])
          THEN [err |-> "ok", value |-> written[k][v].value, ts |-> written[k][v].ts]
          ELSE [err |-> "KeyRevisionNotFound", value |-> 0, ts |-> 0]

\* what a successful flush of a mutated tree leaves: the root page is the
\* last page of the tree log, followed by the commit entry
FlushedRoot(t0, t1) ==
  /\ Len(t1.treeApp) >= Len(t0.treeApp) + 2
  /\ t1.treeApp[Len(t1.treeApp)].type = "commit"
  /\ t1.treeApp[Len(t1.treeApp) - 1].type = "page"
  /\ t1.treeApp[Len(t1.treeApp) - 1].pg.root
  /\ t1.rootID = EndOff(t1.treeApp, Len(t1.treeApp) - 1)

C12_FlushStep ==
  (t.mutated /\ last' = Call("Flush", "ok")) =>
    /\ FlushedRoot(t, t')
    /\ t'.lastSnapshotID = t'.rootID
    /\ ~isMemPage(t'.rootID) /\ t'.rootID # PageNone
    /\ t'.lastSnapshotTs = t'.rootTs
    /\ ~t'.mutated
    /\ t'.headHistoryPageID = PageNone /\ t'.tailHistoryPageID = PageNone

\* C12: every successful Flush of a mutated tree leaves rootID = lastSnapshotID
\* = the persistent id of the root page it has just appended, lastSnapshotTs =
\* rootTs, mutated = FALSE and no history chain in memory; lastSnapshotID is
\* never a mem page id and no read snapshot is anchored at a mem page.
C12_FlushPublishesPersistedRoot ==
  /\ [](/\ ~isMemPage(t.lastSnapshotID)
        /\ \A s \in snaps : ~s.write => ~isMemPage(s.root))
  /\ [][C12_FlushStep]_vars

\* a tree with an inner root has been flushed and a read snapshot opened at it
C12_Witness ==
  /\ ~t.mutated /\ t.lastSnapshotID = t.rootID /\ readPage(t, t.rootID).pg.kind = "inner"
  /\ \E s \in snaps : ~s.write /\ s.root = t.lastSnapshotID

\* C13: every child slot of every page of the tree log holds the persistent id
\* of a page that was appended before it; no mem page id is on disk.
C13_NoMemPageIdOnDisk ==
  \A i \in 1..Len(t.treeApp) :
    t.treeApp[i].type = "page" =>
      \A j \in 1..Len(t.treeApp[i].pg.ch) :
        /\ ~isMemPage(t.treeApp[i].pg.ch[j])
        /\ \E c \in 1..(i - 1) :
             t.treeApp[c].type = "page" /\ EndOff(t.treeApp, c) = t.treeApp[i].pg.ch[j]

\* the ids of the pages of a tree log
PageIds(log) == {EndOff(log, i) : i \in {j \in 1..Len(log) : log[j].type = "page"}}

\* C14 as stated: an id once assigned to a page never later names a page with
\* other content, across crash, recovery and further flushes.  (A page that
\* stays in the tree log keeps its id and content; the pages that left the log
\* are in dropped.)
C14_PageIdsNeverReused ==
  \A d \in dropped : readPage(t, d.id).err = "ok" => readPage(t, d.id).pg = d.pg

C14_LogStep ==
  \/ /\ Len(t'.treeApp) >= Len(t.treeApp)
     /\ SubSeq(t'.treeApp, 1, Len(t.treeApp)) = t.treeApp
     /\ \A i \in (Len(t.treeApp) + 1)..Len(t'.treeApp) :
          t'.treeApp[i].type = "page" =>
            \A id \in PageIds(t.treeApp) : EndOff(t'.treeApp, i) > id
  \/ /\ last' = Call("Open", "ok")
     /\ Len(t'.treeApp) \in 1..(Len(t.treeApp) - 1)
     /\ t'.treeApp = SubSeq(t.treeApp, 1, Len(t'.treeApp))
     /\ t'.treeApp[Len(t'.treeApp)].type = "commit"
     /\ \A j \in (Len(t'.treeApp) + 1)..Len(t.treeApp) : t.treeApp[j].type # "commit"

\* C14: the id a flush returns for a page is the one the page is read back
\* under (the persistent root of an open tree names a root page of the tree
\* log); every step but recovery only appends to the tree log, and a page it
\* appends gets an id above the id of every page in the log; recovery cuts the
\* log right after its last commit entry, so only pages that no commit entry
\* covers leave the log, and their ids are assigned again by later flushes.
C14_PageIdsUniqueUpToRecovery ==
  /\ [](\/ ~t.open \/ t.rootID = PageNone \/ isMemPage(t.rootID)
        \/ (readPage(t, t.rootID).err = "ok" /\ readPage(t, t.rootID).pg.root))
  /\ [][C14_LogStep]_vars

\* the id of a page that recovery dropped names a page with other content
C14_Witness ==
  /\ t.open
  /\ \E d \in dropped : readPage(t, d.id).err = "ok" /\ readPage(t, d.id).pg # d.pg

\* C15: after Open has recovered a commit, every history record reachable from
\* an entry of the recovered tree (through hOff and the prevOffset of each
\* record) lies inside the history log.
C15_RecoveryKeepsHistoryReadable ==
  (t.open /\ last = Call("Open", "ok") /\ t.rootID # PageNone) =>
    \A k \in Keys :
      SnapEntry(t, t.rootID, k).err = "ok" =>
        HistoryChain(t.historyApp, SnapEntry(t, t.rootID, k).e.hoff, MaxSnapInserts + 1).ok

\* the counters that a commit entry carries over a restart
Counters(tt) ==
  [rootTs |-> tt.rootTs, lastSnapshotTs |-> tt.lastSnapshotTs,
   indexedEntryCount |-> tt.indexedEntryCount, numPages |-> tt.numPages,
   stalePages |-> tt.stalePages]

C16_CloseStep ==
  (t.open /\ last' = Call("Close", "ok") /\ t.rootID # PageNone) =>
    /\ Reopened(t').err = "ok"
    /\ Counters(Reopened(t').t) = Counters(flushToTreeLog(t).t)

\* C16: when a tree that holds entries is closed (its last flush done by Flush
\* or by Close itself), Open on its directory restores rootTs, lastSnapshotTs,
\* indexedEntryCount, numPages and stalePages to the values they had after
\* that flush.
C16_RecoveryRestoresCounters == [][C16_CloseStep]_vars

\* the candidates of a listing from which recovery gets a tree with a valid
\* last commit entry, and the one with the largest ts among them
Recoverable(entries) ==
  {i \in 1..Len(entries) : recoverRootPage(NewTree(entries[i].log, <<>>)).err = "ok"}

Newest(entries) ==
  CHOOSE i \in Recoverable(entries) : \A j \in Recoverable(entries) : entries[j].ts <= entries[i].ts

C17_OpenStep ==
  (~t.open /\ last'.op = "Open") =>
    IF Recoverable(dir) # {}
    THEN /\ last'.ret = "ok" /\ t'.open
         /\ t'.treeApp = dir[Newest(dir)].log
         /\ t'.rootTs = dir[Newest(dir)].ts
         /\ t'.rootID # PageNone
    ELSE OpenWith(t.treeApp, t.historyApp).err = "ok" =>
           /\ last'.ret = "ok" /\ t'.open
           /\ t'.treeApp = OpenWith(t.treeApp, t.historyApp).t.treeApp
           /\ t'.rootID = OpenWith(t.treeApp, t.historyApp).t.rootID

\* C17: Open uses the snapshot directory with the largest ts among those whose
\* log yields a valid last commit entry, whatever the others hold; only when
\* no candidate yields one is the base tree log opened.
C17_OpenUsesNewestValidSnapshot == [][C17_OpenStep]_vars

C18_OpenStep ==
  (/\ ~t.open /\ last'.op = "Open"
   /\ dir # <<>> /\ Recoverable(dir) = {}
   /\ findLastValidPage(t.treeApp).err # "ok") =>
    /\ last'.ret = "ok" /\ t'.open /\ t'.rootID = PageNone

\* C18: when there are snapshot candidates, none of them can be recovered and
\* the base tree log has no valid commit entry, Open returns an open, empty
\* tree (rootID = PageNone).
C18_OpenFallsBackToEmptyTree == [][C18_OpenStep]_vars

\* C19: on an open tree whose lock is free, Advance(ts, n) returns
\* InvalidTimestamp and leaves the tree as it is when ts < rootTs, returns
\* without a change when ts = rootTs, and otherwise sets rootTs = ts and
\* indexedEntryCount = n and nothing else: rootID, lastSnapshotID,
\* lastSnapshotTs, mutated, the write buffer and both logs stay as they are.
C19_AdvanceFrame ==
  (t.open /\ TryLock(mtx)) =>
    \A ts \in Timestamps, n \in EntryCounts :
      AdvanceCall(t, mtx, ts, n) =
        IF ts < t.rootTs THEN [ret |-> "InvalidTimestamp", t |-> t]
        ELSE IF ts = t.rootTs THEN [ret |-> "ok", t |-> t]
        ELSE [ret |-> "ok", t |-> [t EXCEPT !.rootTs = ts, !.indexedEntryCount = n]]

\* Advance has moved rootTs of a tree with unflushed entries past their ts
C19_Witness ==
  /\ last = Call("Advance", "ok") /\ t.mutated /\ t.rootID # PageNone
  /\ t.indexedEntryCount \in EntryCounts
  /\ \A x \in AllTs(written) : x < t.rootTs

\* C20: on an open tree whose lock is free, ensureLatestSnapshotContainsTs(ts)
\* (the common part of SnapshotMustIncludeTs and SnapshotAtTs) fails with
\* StaleRootTimestamp when rootTs < ts, and when it succeeds the root it
\* returns for the read snapshot is a root page of the tree log and the
\* snapshot ts it returns is >= ts.
C20_SnapshotIncludesTs ==
  (t.open /\ TryLock(mtx)) =>
    \A ts \in Timestamps :
      /\ t.rootTs < ts => ensureLatestSnapshotContainsTs(t, ts).err = "StaleRootTimestamp"
      /\ ensureLatestSnapshotContainsTs(t, ts).err = "ok" =>
           /\ ensureLatestSnapshotContainsTs(t, ts).root # PageNone
           /\ ~isMemPage(ensureLatestSnapshotContainsTs(t, ts).root)
           /\ ensureLatestSnapshotContainsTs(t, ts).ts >= ts

\* C21: a SnapshotAtTs or SnapshotMustIncludeTs call whose context was
\* cancelled while it was blocked on the tree lock returns Cancelled and has
\* changed nothing: the step by which such a call returns leaves the tree and
\* the set of snapshots as they are and reports Cancelled.
C21_CancelledCallReturns ==
  \A i \in Threads :
    (th[i].pc \in SnapshotOps /\ th[i].ctx = "cancelled" /\ th[i].waited /\ th'[i].pc = "idle")
      => (last'.ret = "Cancelled" /\ t' = t /\ snaps' = snaps)

C21_CancelledCallReturnsCancelled == [][C21_CancelledCallReturns]_vars

\* C22: on an open tree, for every entry, the locked part of Insert returns
\* WriteBufferFull only when the write buffer cannot grow by depth + 2 pages,
\* and then it has changed nothing; when the buffer can grow by depth + 2
\* pages no allocation of the insert fails.
C22_WriteBufferFullOnlyAtReservation ==
  t.open =>
    \A e \in InsertInputs :
      InsertLocked(t, e).err = "WriteBufferFull" =>
        (~Grow(t, t.depth + 2) /\ InsertLocked(t, e).t = t)

\* C23: a Close that finds no active snapshot has made all five calls, the
\* flush, the two Syncs and the two Closes, in that order, whichever of them
\* failed, and returns the errors of exactly the calls that failed.
C23_CloseAttemptsEveryStep ==
  (last.op = "Close" /\ last.ret # <<"ActiveSnapshots">>) =>
    /\ last.steps = CloseSteps
    /\ \A i \in 2..Len(CloseSteps) :
         CloseSteps[i] \in last.faults => \E j \in 1..Len(last.ret) : last.ret[j] = CloseSteps[i]

\* C24: when a reader's Get of a key returns, and the reader's previous Get
\* of that key had found it, the key is found again and with a timestamp
\* that is not smaller.
C24_ReaderStep ==
  \A i \in Readers :
    (th[i].pc = "GetRLocked" /\ th'[i].pc = "idle" /\ th[i].e.value # 0)
      => (th'[i].e.value # 0 /\ th'[i].e.ts >= th[i].e.ts)

C24_ReadersSeeMonotoneTs == [][C24_ReaderStep]_vars

\* the search-tree order of the pages under id: keys strictly ascending in the
\* page and inside [lo, hi), an inner page with one child more than keys, and
\* child i holding the keys from separator i up to, not including, separator
\* i + 1
StrictlyAscending(q) == \A i \in 1..(Len(q) - 1) : q[i] < q[i + 1]

RECURSIVE Ordered(_, _, _, _, _)
Ordered(tt, id, lo, hi, fuel) ==
  LET Inner(pg) ==
        /\ StrictlyAscending(pg.keys)
        /\ \A i \in 1..Len(pg.keys) : lo < pg.keys[i] /\ pg.keys[i] < hi
        /\ Len(pg.ch) = Len(pg.keys) + 1
        /\ \A i \in 1..Len(pg.ch) :
             Ordered(tt, pg.ch[i],
                     IF i = 1 THEN lo ELSE pg.keys[i - 1],
                     IF i = Len(pg.ch) THEN hi ELSE pg.keys[i], fuel - 1)
      Leaf(pg) ==
        /\ StrictlyAscending([i \in 1..Len(pg.es) |-> pg.es[i].key])
        /\ \A i \in 1..Len(pg.es) : lo <= pg.es[i].key /\ pg.es[i].key < hi
      Page(g) ==
        g.err = "ok" /\ (IF IsLeaf(g.pg) THEN Leaf(g.pg) ELSE Inner(g.pg))
  IN fuel > 0 /\ Page(getPage(tt, id))

\* C25: in every state of an open tree the pages under the root are in
\* search-tree order, and every key that was inserted is found by Get, the
\* descent from the root.
C25_SearchTreeOrder ==
  t.open =>
    /\ t.rootID # PageNone => Ordered(t, t.rootID, 0, MaxKey + 1, MaxDescent)
    /\ \A k \in Keys : written[k] # <<>> => Get(t, k).err = "ok"

\* the writes of key k with a timestamp up to ts, oldest first
UpTo(w, k, ts) == SelectSeq(w[k], LAMBDA x : x.ts <= ts)

\* C26: the tree under the root of an open read snapshot with timestamp T
\* holds every entry inserted with ts <= T: for every key with such an entry
\* the snapshot finds the key, with that entry or with a later one (which
\* has the former in its history), whether the other entries of its
\* transaction are in the snapshot or not.
C26_ReadSnapshotHoldsAllUpToTs ==
  \A s \in snaps :
    ~s.write =>
      \A k \in Keys :
        UpTo(written, k, s.ts) # <<>> =>
          /\ s.seen[k].err = "ok"
          /\ s.seen[k].ts >= UpTo(written, k, s.ts)[Len(UpTo(written, k, s.ts))].ts

\* C27: while a background sync task launched by a flush has not finished,
\* the snapshot counter is above zero, and the counter of an open tree is the
\* number of open snapshots plus the number of running sync tasks (so it is
\* back to its previous value when the task has finished).
C27_SyncHoldsSnapshotCount ==
  t.open =>
    /\ t.syncs.launched + t.syncs.running > 0 => t.snapshotCount > 0
    /\ t.snapshotCount = Cardinality(snaps) + t.syncs.running

\* the tree without the running background sync tasks
Calm(tt) == [tt EXCEPT !.snapshotCount = @ - tt.syncs.running, !.syncs.running = 0]

\* C28: on an open tree whose lock is free, Close, Flush and Get return what
\* they would return if no background sync task were running.
C28_SyncIsInvisible ==
  (t.open /\ TryLock(mtx)) =>
    /\ CloseCall(t, {}).ret = CloseCall(Calm(t), {}).ret
    /\ flushToTreeLog(t).err = flushToTreeLog(Calm(t)).err
    /\ \A k \in Keys : Get(t, k) = Get(Calm(t), k)

WalkTs(tt, k) ==
  LET At(x) ==
        IF x.err # "ok" THEN <<>>
        ELSE <<x.e.ts>> \o SeqMap(ChainOf(tt, k).recs, LAMBDA r : r.ts)
  IN At(SnapEntry(tt, tt.rootID, k))

C30_FlushStep ==
  (Flush /\ ~t.mutated) =>
    /\ last' = Call("Flush", "ok")
    /\ t'.treeApp = t.treeApp /\ t'.historyApp = t.historyApp
    /\ t'.rootID = t.rootID /\ t'.lastSnapshotID = t.lastSnapshotID
    /\ t'.lastSnapshotTs = t.lastSnapshotTs /\ t'.rootTs = t.rootTs
    /\ t'.numPages = t.numPages /\ t'.stalePages = t.stalePages
    /\ t'.unsyncedBytes = t.unsyncedBytes
    /\ t' = t

\* C30: Flush on a tree with mutated = false (freshly opened, just flushed,
\* or changed only by Advance) appends nothing to either log and changes no
\* state: rootID, lastSnapshotID, lastSnapshotTs, rootTs, numPages, stalePages
\* and unsyncedBytes are unchanged.
C30_FlushOfUnmutatedTreeChangesNothing == [][C30_FlushStep]_vars

\* C30 witness: Flush has returned on a tree that holds flushed pages and
\* whose timestamp Advance has since moved past the last snapshot's, with
\* nothing to flush.
C30_Witness ==
  /\ last = Call("Flush", "ok")
  /\ t.open /\ ~t.mutated
  /\ Len(t.treeApp) > 0
  /\ t.rootTs > t.lastSnapshotTs

\* the bytes of the history records archived and not yet flushed
PendingHistory(tt) == flushHistory(tt).n

\* a successful Insert that replaces the entry of key k stores as hOff the
\* size of the history log plus the bytes archived before it since the last
\* flush: the offset at which the next flush writes the archived record
C31_InsertStep ==
  \A k \in Keys :
    (/\ t.open /\ t'.open
     /\ written[k] # <<>>
     /\ Len(written'[k]) = Len(written[k]) + 1
     /\ flushHistory(t).err = "ok"
     /\ SnapEntry(t', t'.rootID, k).err = "ok")
    => SnapEntry(t', t'.rootID, k).e.hoff = HistoryBytes(t.historyApp) + PendingHistory(t)

\* C31: the hOff stored in a leaf entry equals the absolute history-log
\* offset at which the flush writes the referenced record (the size of the
\* history log at flush start plus the record's offset within the batch), on
\* the first flush, on later flushes of the session and after re-opening a
\* tree whose history log is not empty.
C31_HOffIsAbsoluteLogOffset == [][C31_InsertStep]_vars

\* what one successful flush of a mutated tree appends, in the order of the
\* logs: the buffered history records, then pages whose child slots name
\* pages appended earlier, the root page last, then the commit entry
C32_FlushStep ==
  (t.mutated /\ last' = Call("Flush", "ok")) =>
    LET log == t'.treeApp
        from == Len(t.treeApp) + 1
        to == Len(t'.treeApp)
    IN /\ t'.historyApp = flushHistory(t).t.historyApp
       /\ to >= from + 1
       /\ log[to].type = "commit"
       /\ \A i \in from..(to - 1) : log[i].type = "page"
       /\ log[to - 1].pg.root /\ \A i \in from..(to - 2) : ~log[i].pg.root
       /\ SubSeq(log, 1, from - 1) = t.treeApp
       /\ \A i \in from..(to - 1) :
            \A j \in 1..Len(log[i].pg.ch) :
              /\ ~isMemPage(log[i].pg.ch[j])
              /\ \E c \in 1..(i - 1) :
                   log[c].type = "page" /\ EndOff(log, c) = log[i].pg.ch[j]

\* C32: Flush writes in a fixed order: first all in-memory history pages to
\* the history log, then the tree pages in post-order (every in-memory child
\* before its parent, the root last), and the commit entry only after every
\* page of the batch has been appended, immediately after the root page.
C32_FlushWritesInOrder == [][C32_FlushStep]_vars

\* a successful Insert into a tree that has a root: when the descent returns
\* a split, depth grows by one and the root is a fresh inner page flagged as
\* root with one separator over the old root's copy and the split page;
\* otherwise depth stays and the root is the writable copy of the old root
C33_InsertStep ==
  \A k \in Keys, v \in Values, ts \in Timestamps :
    (Insert(k, v, ts) /\ last' = Call("Insert", "ok") /\ t.rootID # PageNone) =>
      LET Descended(res) ==
            IF res.split
            THEN /\ t'.depth = t.depth + 1
                 /\ ~InWB(t, t'.rootID) /\ InWB(t', t'.rootID)
                 /\ WbGet(t', t'.rootID).kind = "inner"
                 /\ WbGet(t', t'.rootID).root
                 /\ Len(WbGet(t', t'.rootID).keys) = 1
                 /\ WbGet(t', t'.rootID).ch = <<res.newPageID, res.splitPageID>>
                 /\ res.newPageID = GetOrDup(t, t.rootID).id
            ELSE /\ t'.depth = t.depth
                 /\ t'.rootID = GetOrDup(t, t.rootID).id
      IN Descended(insert(t, t.rootID, Entry(k, v, ts), 0))

\* C33: the tree's depth field changes only when the root splits, and then by
\* exactly one: on a root split the new root is a fresh inner page flagged
\* isRoot with exactly one separator and two children (left = the old root's
\* new id, right = the split page) and rootID becomes its id; on every other
\* successful Insert depth is unchanged and rootID becomes the id of the
\* writable copy of the old root.
C33_DepthChangesOnlyOnRootSplit == [][C33_InsertStep]_vars

\* the history records archived and not yet flushed, in the order of the
\* in-memory history chain
PendingRecords(tt) ==
  SubSeq(flushHistory(tt).t.historyApp, Len(tt.historyApp) + 1,
         Len(flushHistory(tt).t.historyApp))

\* the number of leaves under page id that hold an entry of key k
RECURSIVE Occurrences(_, _, _, _)
Occurrences(tt, id, k, fuel) ==
  LET Under(pg) ==
        IF IsLeaf(pg) THEN (IF LeafIndex(pg, k) > 0 THEN 1 ELSE 0)
        ELSE SumSeq([i \in 1..Len(pg.ch) |-> Occurrences(tt, pg.ch[i], k, fuel - 1)])
      Page(g) == IF g.err # "ok" THEN 0 ELSE Under(g.pg)
  IN IF fuel = 0 \/ id = PageNone THEN 0 ELSE Page(getPage(tt, id))

\* a successful Insert of key k that the tree already holds, split or not:
\* one record with the replaced entry's value, timestamp and hOff is added to
\* the in-memory history chain, and the key's one entry has the new value,
\* one more in hC and as hOff the offset archiveEntry gave the record
C34_Replaced(k) ==
  LET old == SnapEntry(t, t.rootID, k).e
      new == SnapEntry(t', t'.rootID, k)
      rec == HistoryEntry(old.hoff, old.ts, old.value)
  IN /\ new.err = "ok"
     /\ new.e.value = written'[k][Len(written'[k])].value
     /\ new.e.ts = written'[k][Len(written'[k])].ts
     /\ new.e.hc = old.hc + 1
     /\ new.e.hoff = t.bufferedHistoryData
     /\ t'.bufferedHistoryData = t.bufferedHistoryData + HistoryEntrySize(rec)
     /\ flushHistory(t').err = "ok"
     /\ PendingRecords(t') = PendingRecords(t) \o <<rec>>
     /\ Occurrences(t', t'.rootID, k, MaxDescent + 1) = 1

C34_InsertStep ==
  (t.open /\ nIns' = nIns + 1 /\ flushHistory(t).err = "ok") =>
    \A k \in Keys :
      (Len(written'[k]) = Len(written[k]) + 1 /\ SnapEntry(t, t.rootID, k).err = "ok")
        => C34_Replaced(k)

C35_InsertStep ==
  (t.open /\ last'.op = "Insert" /\ last'.ret # "ok") =>
    /\ \A k \in Keys : Get(t', k) = Get(t, k)
    /\ t'.rootID = t.rootID /\ t'.rootTs = t.rootTs
    /\ t'.depth = t.depth /\ t'.mutated = t.mutated

\* C35: if Insert returns any error (page allocation failure during a split,
\* history-page allocation failure, page read failure), the tree is as before
\* the call: Get returns the same result for every key, and rootID, rootTs,
\* depth and mutated are unchanged.
C35_FailedInsertChangesNothing == [][C35_InsertStep]_vars

\* a Flush that returns an error leaves the published root, the counters and
\* the in-memory history chain as they were, and the flush that follows
\* writes the history that the failed one was to write
C36_FlushStep ==
  (t.open /\ last'.op = "Flush" /\ last'.ret # "ok") =>
    /\ t'.rootID = t.rootID /\ t'.lastSnapshotID = t.lastSnapshotID
    /\ t'.lastSnapshotTs = t.lastSnapshotTs /\ t'.mutated = t.mutated
    /\ t'.numPages = t.numPages /\ t'.stalePages = t.stalePages
    /\ t'.headHistoryPageID = t.headHistoryPageID
    /\ t'.tailHistoryPageID = t.tailHistoryPageID
    /\ flushToTreeLog(t').t.historyApp = flushToTreeLog(t).t.historyApp

\* C36: if Flush returns an error (history append, page append or commit
\* write fails), rootID, lastSnapshotID, lastSnapshotTs, mutated, numPages,
\* stalePages and the in-memory history chain are as before the call, so that
\* a retried Flush persists the complete in-memory state with a commit entry
\* that describes it and counts each page once.
C36_FailedFlushChangesNothing == [][C36_FlushStep]_vars

\* the (root, ts) pairs that the flushes of a tree log have published: a root
\* page and the Ts of the commit entry written after it
Published(log) ==
  {<<EndOff(log, i), log[i + 1].ce.Ts>> :
     i \in {j \in 1..(Len(log) - 1) : log[j].type = "page" /\ log[j + 1].type = "commit"}}

\* C37: a read snapshot opened concurrently with a Flush captures a
\* (rootPageID, ts) pair published by one single flush: never the root of one
\* flush combined with the lastSnapshotTs of another.
C37_SnapshotPairFromOneFlush ==
  \A s \in snaps : ~s.write => <<s.root, s.ts>> \in Published(t.treeApp)

\* set of the indexes in a slice
Registered(mm, l) == {mm.indexes[l][j] : j \in 1..Len(mm.indexes[l])}

\* C38: after DeleteIndexing(ledger, prefix) has returned an index without
\* error, GetIndexFor returns that index for no key, InitIndexing with its
\* target prefix does not fail with ErrIndexAlreadyInitialized, and every
\* other index that was registered for the ledger still is.
C38_DeleteStep ==
  \A l \in Ledgers, prefix \in Prefixes, env \in {"ok", "RemoveAll"} :
    (DeleteIndexing(l, prefix, env) /\ last'.ret = "ok") =>
      /\ \A key \in IndexKeys : GetIndexForScan(m', m'.indexes[l], key).idx # last'.idx
      /\ InitIndexingCall(m', l, [target |-> m.objs[last'.idx].target, source |-> <<>>], "ok").ret
           # "IndexAlreadyInitialized"
      /\ Registered(m, l) \ {last'.idx} \subseteq Registered(m', l)

C38_DeletedIndexIsUnregistered == [][C38_DeleteStep]_vars

\* C39: every index that InitIndexing has created has a tree id that no other
\* index created by the manager has, and once as many indexes have been
\* created as there are ids, InitIndexing fails and neither creates nor
\* registers an index.
C39_InitStep ==
  /\ \A i, j \in 1..Len(m'.objs) : i # j => m'.objs[i].id # m'.objs[j].id
  /\ \A l \in Ledgers, spec \in IndexSpecs, env \in {"ok", "newIndex", "corrupted"} :
       (InitIndexing(l, spec, env) /\ Len(m.objs) > MaxTreeID) =>
         last'.ret # "ok" /\ m'.objs = m.objs /\ m'.indexes = m.indexes

C39_TreeIDsNeverShared == [][C39_InitStep]_vars

\* C40: once IndexerManager.Close has returned, no call gets past its closed
\* check, and every call made returns ErrAlreadyClosed and leaves the manager
\* and its indexes as they are: Flush, InitIndexing, ForEachIndex,
\* WaitForIndexingUpTo, CloseIndexing, DeleteIndexing, CloseLedgerIndexing,
\* GetIndexFor and Close, whatever calls were under way when Close ran. (A
\* step with th unchanged is a call made in that step; a step of a thread
\* that is not idle belongs to a call made before Close returned.)
C40_ClosedStep ==
  m.closed =>
    /\ \A i \in Threads : th[i].pc = "idle" => th'[i] = th[i]
    /\ th' = th => m' = m /\ last'.ret = "AlreadyClosed"

C40_ClosedManagerRefusesEveryCall == [][C40_ClosedStep]_vars

\* C40 witness: the manager was closed while a CloseLedgerIndexing held the
\* slice of an index, and a GetIndexFor made afterwards has been refused
C40_Witness ==
  /\ m.closed
  /\ last = [op |-> "GetIndexFor", ret |-> "AlreadyClosed", idx |-> NoIndex]
  /\ \E i \in Threads : th[i].pc = "CloseLedgerIndexingLoop" /\ th[i].e.indexes # <<>>

====
